---- MODULE Spec2Model ----
(***************************************************************************)
(* Model of the crypto tax calculator backend: the FIFO cost-lot ledger    *)
(* of TaxEngineService, the report job handling of ReportService, the      *)
(* transfer-log classification of ClassifierService and the decimal        *)
(* tables of the pricing services.                                         *)
(*                                                                         *)
(* Units.  Raw token amounts are integers (the BigNumber values of the     *)
(* code).  USD amounts are integer cents.  A cost-basis contribution is    *)
(* kept in 1/10000 cent (cents * RatioScale) because the code multiplies   *)
(* the lot's USD cost by a ratio that has four decimal places.  Time is    *)
(* counted in ticks of 12 hours, so that the floor of the day difference   *)
(* at tax-engine.service.ts:230 does something.                            *)
(***************************************************************************)
EXTENDS Integers, Sequences, FiniteSets, TLC

VARIABLES
    costLots,       \* the CostLot table, in insertion order
    disposedUnits,  \* history: units taken from lots, per (address, token)
    lastOp,         \* history: address and event of the disposal gain describes
    gain,           \* what calculateDisposalGain returned in that step
    run,            \* per job: the position inside calculateDisposalGain
    jobs,           \* the Job table
    requests,       \* per HTTP request: the position inside createReport
    started,        \* per job id: how many times processReport was started
    classified,     \* the last classified transaction and its events
    conv,           \* the last amount conversion, per conversion site
    totals,         \* the running totals of a calculateTaxes call
    reports,        \* the Report table
    priceCache,     \* the PriceCache table
    apiCalls,       \* history: the requests sent to the price API
    resolves,       \* per caller: its getPriceAtTime call and what it returned
    holdings,       \* what the unrealized-gain computations returned
    holding,        \* a holding-period computation in double arithmetic
    pipeline        \* per job: the position inside processReport

\* the variables of the report, price and holding computations
laterVars == <<totals, reports, priceCache, apiCalls, resolves, holdings,
               holding, pipeline>>

vars == <<costLots, disposedUnits, lastOp, gain, run, jobs, requests,
          started, classified, conv, laterVars>>

----------------------------------------------------------------------------
(* Bounds of the model *)

MaxLots == 2
MaxAmount == 3
MaxLogs == 2

(* Inputs *)

Addresses == {"a1", "a2"}
Tokens == {"T1", "T2"}
\* two transactions, 1 the earlier one
TxHashes == {1, 2}
Amounts == {0, 1, MaxAmount}

NULL == 0 - 1
NoToken == ""

TicksPerDay == 2
TickStep == 3

\* A transaction's block timestamp, in ticks; the classifier copies txHash
\* and timestamp of the transaction into every event it emits.
TxTimestamp(h) == (h - 1) * TickStep

\* The USD price of one raw unit of a token at the time of a transaction, in
\* cents: what the price source answered for (token, timestamp).
PriceCents(token, h) == IF token = "T1" THEN 100 * h ELSE 50 * h

\* (amount * price).toFixed(2), in cents
UsdOf(token, amount, h) == amount * PriceCents(token, h)

Categories == {"DISPOSAL", "STAKING", "AIRDROP", "TRANSFER", "DEDUCTION"}

RatioScale == 10000
LONG_TERM_DAYS == 365

----------------------------------------------------------------------------
(* Sequence helpers *)

RECURSIVE SumSeq(_)
SumSeq(s) == IF s = <<>> THEN 0 ELSE Head(s) + SumSeq(Tail(s))

Range(s) == {s[i] : i \in DOMAIN s}

----------------------------------------------------------------------------
(* JavaScript truthiness of the nullable columns of TaxEvent *)

\* a string column holding a decimal number: undefined/null is falsy, every
\* number string is truthy, "0" and "0.00" included
Truthy(v) == v # NULL

\* a token address column: undefined and "" are falsy
IsToken(t) == t # NoToken

----------------------------------------------------------------------------
(* The CostLot table *)

NewLot(table, address, tokenAddress, acquiredDate, txHash, amount, costBasisUsd) ==
    [ id              |-> Len(table) + 1,
      address         |-> address,
      tokenAddress    |-> tokenAddress,
      acquiredDate    |-> acquiredDate,
      acquiredTxHash  |-> txHash,
      amount          |-> amount,
      costBasisUsd    |-> costBasisUsd,
      remainingAmount |-> amount,
      disposed        |-> FALSE,
      disposedDate    |-> NULL,
      disposedTxHash  |-> NULL ]

createCostLot(table, address, tokenAddress, acquiredDate, txHash, amount, costBasisUsd) ==
    Append(table, NewLot(table, address, tokenAddress, acquiredDate, txHash,
                         amount, costBasisUsd))

\* prisma.costLot.update({ where: { id }, data })
UpdateLot(table, id, newRemaining, event, lot) ==
    [ i \in DOMAIN table |->
        IF table[i].id = id
        THEN [ table[i] EXCEPT
                 !.remainingAmount = newRemaining,
                 !.disposed        = (newRemaining = 0),
                 !.disposedDate    = IF newRemaining = 0 THEN event.timestamp
                                     ELSE lot.disposedDate,
                 !.disposedTxHash  = IF newRemaining = 0 THEN event.txHash
                                     ELSE lot.disposedTxHash ]
        ELSE table[i] ]

\* the where clause of the findMany in calculateDisposalGain; remainingAmount
\* is a decimal string without leading zeros, so it compares greater than '0'
\* exactly when the number is positive
LotIsOpen(lot, address, tokenAddress) ==
    /\ lot.address = address
    /\ lot.tokenAddress = tokenAddress
    /\ lot.disposed = FALSE
    /\ lot.remainingAmount > 0

OpenLotIndexes(table, address, tokenAddress) ==
    { i \in DOMAIN table : LotIsOpen(table[i], address, tokenAddress) }

\* a findMany without the orderBy clause: rows come back in insertion order
SortedByInsertion(table, order) ==
    \A i, j \in DOMAIN order : i < j => order[i] < order[j]

\* orderBy: { acquiredDate: 'asc' }
SortedByAcquiredDate(table, order) ==
    \A i, j \in DOMAIN order :
        i < j => table[order[i]].acquiredDate <= table[order[j]].acquiredDate

\* The rows findMany can return: the open lots of (address, token) in
\* ascending acquiredDate; the database fixes no order among equal dates.
FifoSnapshots(table, address, tokenAddress) ==
    LET open == OpenLotIndexes(table, address, tokenAddress)
        n    == Cardinality(open)
        orders == { o \in [1..n -> open] :
                      /\ \A i, j \in 1..n : i # j => o[i] # o[j]
                      /\ SortedByAcquiredDate(table, o) }
    IN  { [ k \in 1..n |-> table[o[k]] ] : o \in orders }

----------------------------------------------------------------------------
(* calculateDisposalGain *)

NoGain == [ isNull |-> TRUE ]

\* the local variables of calculateDisposalGain before the loop
StartDisposal(event) ==
    [ remainingToDispose    |-> event.tokenOutAmount,
      totalCostBasis        |-> 0,
      weightedHoldingPeriod |-> 0,
      totalDisposed         |-> 0,
      parts                 |-> <<>> ]

ToTakeFromLot(remainingToDispose, lotRemaining) ==
    IF remainingToDispose > lotRemaining THEN lotRemaining ELSE remainingToDispose

\* the ratio scaled by 1000 before the division and by 10000 after it
ProportionalCostScaleSlip(lot, toTakeFromLot) ==
    lot.costBasisUsd * ((toTakeFromLot * 1000) \div lot.amount)

\* lotCostBasis * (toTake.mul(10000).div(lotAmount).toNumber() / 10000),
\* in 1/10000 cent
ProportionalCost(lot, toTakeFromLot) ==
    lot.costBasisUsd * ((toTakeFromLot * RatioScale) \div lot.amount)

HoldingDays(event, lot) ==
    (event.timestamp - lot.acquiredDate) \div TicksPerDay

\* the local variables after one pass of the loop body for lot; the token
\* units of the weighted holding period are kept raw here: for lots held 0
\* or 1 days and takes that add up to MaxAmount at most, the quotient of the
\* doubles (HoldingPeriodOf below) is the quotient of the raw sums
ConsumeLocals(acc, lot, event) ==
    LET toTake == ToTakeFromLot(acc.remainingToDispose, lot.remainingAmount)
    IN  [ remainingToDispose    |-> acc.remainingToDispose - toTake,
          totalCostBasis        |-> acc.totalCostBasis + ProportionalCost(lot, toTake),
          weightedHoldingPeriod |-> acc.weightedHoldingPeriod
                                      + HoldingDays(event, lot) * toTake,
          totalDisposed         |-> acc.totalDisposed + toTake,
          parts                 |-> Append(acc.parts,
                                      [ lot  |-> lot.id,
                                        units |-> toTake,
                                        cost |-> ProportionalCost(lot, toTake) ]) ]

\* the new remaining amount computed from the lot's original amount
ConsumeTableFromOriginal(table, acc, lot, event) ==
    LET toTake == ToTakeFromLot(acc.remainingToDispose, lot.remainingAmount)
    IN  UpdateLot(table, lot.id, lot.amount - toTake, event, lot)

\* the row written for lot by the loop body: computed from the remaining
\* amount held in the snapshot row, not re-read
ConsumeTable(table, acc, lot, event) ==
    LET toTake == ToTakeFromLot(acc.remainingToDispose, lot.remainingAmount)
    IN  UpdateLot(table, lot.id, lot.remainingAmount - toTake, event, lot)

\* the part of the amount no lot covered charged at the full proceeds
DisposalResultChargingShortfall(acc, event) ==
    LET proceeds    == IF Truthy(event.tokenInUsd) THEN event.tokenInUsd ELSE 0
        gasFee      == IF Truthy(event.gasFeeUsd) THEN event.gasFeeUsd ELSE 0
        netProceeds == proceeds - gasFee
        shortfall   == IF acc.remainingToDispose > 0 THEN 1 ELSE 0
        cost        == acc.totalCostBasis + shortfall * netProceeds * RatioScale
    IN  [ isNull        |-> FALSE,
          costBasis     |-> cost,
          proceeds      |-> netProceeds,
          realizedGain  |-> netProceeds * RatioScale - cost,
          holdingPeriod |-> IF acc.totalDisposed > 0
                            THEN acc.weightedHoldingPeriod \div acc.totalDisposed
                            ELSE 0,
          parts         |-> acc.parts ]

\* the gas fee left out of the proceeds
DisposalResultGrossProceeds(acc, event) ==
    LET proceeds == IF Truthy(event.tokenInUsd) THEN event.tokenInUsd ELSE 0
    IN  [ isNull        |-> FALSE,
          costBasis     |-> acc.totalCostBasis,
          proceeds      |-> proceeds,
          realizedGain  |-> proceeds * RatioScale - acc.totalCostBasis,
          holdingPeriod |-> IF acc.totalDisposed > 0
                            THEN acc.weightedHoldingPeriod \div acc.totalDisposed
                            ELSE 0,
          parts         |-> acc.parts ]

\* the value returned after the loop
DisposalResult(acc, event) ==
    LET proceeds    == IF Truthy(event.tokenInUsd) THEN event.tokenInUsd ELSE 0
        gasFee      == IF Truthy(event.gasFeeUsd) THEN event.gasFeeUsd ELSE 0
        netProceeds == proceeds - gasFee
    IN  [ isNull        |-> FALSE,
          costBasis     |-> acc.totalCostBasis,
          proceeds      |-> netProceeds,
          realizedGain  |-> netProceeds * RatioScale - acc.totalCostBasis,
          holdingPeriod |-> IF acc.totalDisposed > 0
                            THEN acc.weightedHoldingPeriod \div acc.totalDisposed
                            ELSE 0,
          parts         |-> acc.parts ]

\* the whole loop over the snapshot rows, from row k on
RECURSIVE ConsumeAll(_, _, _, _, _)
ConsumeAll(table, acc, lots, k, event) ==
    IF k > Len(lots) \/ acc.remainingToDispose <= 0
    THEN [ table |-> table, acc |-> acc ]
    ELSE ConsumeAll(ConsumeTable(table, acc, lots[k], event),
                    ConsumeLocals(acc, lots[k], event), lots, k + 1, event)

\* the early return at the top of calculateDisposalGain
HasTokenOut(event) == IsToken(event.tokenOut) /\ Truthy(event.tokenOutAmount)

----------------------------------------------------------------------------
(* Events the tax engine is given *)

NoEvent == [ category |-> "NONE" ]

\* history: the units a pass of calculateDisposalGain took, added to the
\* total of (address, token)
AddDisposed(d, address, tokenAddress, units) ==
    [ d EXCEPT ![<<address, tokenAddress>>] = @ + units ]


----------------------------------------------------------------------------
(* Inputs of the tax engine: the rows classification and pricing leave in   *)
(* TaxEvent.  A leg is a token with its raw amount; tokenInUsd is only ever *)
(* written for an event that has a tokenIn and a tokenInAmount.            *)

NoLeg == [ token |-> NoToken, amount |-> NULL, priced |-> FALSE ]

Legs == [ token : Tokens, amount : Amounts, priced : BOOLEAN ]

LegUsd(leg, h) == IF leg.priced THEN UsdOf(leg.token, leg.amount, h) ELSE NULL

EventOf(h, category, in, out) ==
    [ txHash         |-> h,
      timestamp      |-> TxTimestamp(h),
      category       |-> category,
      tokenIn        |-> in.token,
      tokenInAmount  |-> in.amount,
      tokenInUsd     |-> LegUsd(in, h),
      tokenOut       |-> out.token,
      tokenOutAmount |-> out.amount,
      tokenOutUsd    |-> LegUsd(out, h),
      gasFeeUsd      |-> NULL ]

\* tokenIn legs: the priced legs of 1 and MaxAmount units, a zero-value
\* transfer of T1, and one leg that pricing left without USD
InLegs == { l \in Legs : l.priced /\ (l.amount > 0 \/ l.token = "T1") } \cup
          { [ token |-> "T1", amount |-> 1, priced |-> FALSE ] }

\* tokenOut legs
OutLegs == { l \in Legs : l.priced /\ (l.amount > 0 \/ l.token = "T1") }

\* the token a swap of tokenOut pays out
OtherToken(t) == IF t = "T1" THEN "T2" ELSE "T1"

\* what a disposal of out receives: nothing, one unit of the other token, or
\* (for one unit of T1) one unit that pricing left without USD
SwapInLegs(out) ==
    { NoLeg, [ token |-> OtherToken(out.token), amount |-> 1, priced |-> TRUE ] }
    \cup { [ token |-> OtherToken(out.token), amount |-> 1, priced |-> FALSE ] :
             x \in { l \in {out} : l.token = "T1" /\ l.amount = 1 } }

IncomeEvents ==
    { EventOf(h, c, in, NoLeg) :
        h \in TxHashes, c \in {"AIRDROP", "STAKING"}, in \in InLegs }

DisposalEvents ==
    { EventOf(h, "DISPOSAL", NoLeg, NoLeg) : h \in TxHashes }
    \cup UNION { { EventOf(h, "DISPOSAL", in, out) : h \in TxHashes, in \in SwapInLegs(out) } :
                   out \in OutLegs }

NonTaxableEvents ==
    { EventOf(1, "TRANSFER", NoLeg, out) : out \in { l \in OutLegs : l.amount = 1 } }
    \cup { EventOf(1, "DEDUCTION", NoLeg, NoLeg) }

\* The events of the jobs of address a1 are drawn from all of the above; the
\* jobs of address a2 acquire and dispose token T1 only.
EventsOf(address, events) ==
    IF address = "a1" THEN events
    ELSE { e \in events :
             /\ e.tokenIn \in {NoToken, "T1"} /\ e.tokenOut \in {NoToken, "T1"}
             /\ e.tokenInAmount \in {NULL, MaxAmount}
             /\ e.tokenOutAmount \in {NULL, 1}
             /\ e.category \in {"AIRDROP", "DISPOSAL"}
             /\ (IsToken(e.tokenIn) => e.tokenInUsd # NULL) }

----------------------------------------------------------------------------
(* Initial state: empty tables, nothing in flight *)

JobIds == 1..2
RequestIds == 1..3

\* a job that is not inside calculateDisposalGain; a call that was abandoned
\* on an error leaves outcome "error" and the number of lot updates it had
\* applied
IdleRun == [ pc |-> "idle", outcome |-> "none", applied |-> 0 ]

NoOp == [ address |-> NoToken, event |-> NoEvent ]

\* a createReport call that has not been made
NoRequest == [ pc |-> "idle" ]

\* nothing classified, nothing converted
NoTx == [ from |-> NoToken ]
NoConv == [ token |-> NoToken ]

InitLedger ==
    /\ costLots = <<>>
    /\ disposedUnits = [ p \in Addresses \X Tokens |-> 0 ]
    /\ lastOp = NoOp
    /\ gain = NoGain
    /\ run = [ j \in JobIds |-> IdleRun ]

InitReports ==
    /\ jobs = <<>>
    /\ requests = [ r \in RequestIds |-> NoRequest ]
    /\ started = <<>>

\* no calculateTaxes call in progress, no report saved
NoTotals == [ pc |-> "idle" ]

InitTax ==
    /\ totals = NoTotals
    /\ reports = <<>>

\* a caller that is not inside getPriceAtTime
NoResolve == [ pc |-> "idle" ]

Resolvers == {1, 2}

InitPrices ==
    /\ priceCache = <<>>
    /\ apiCalls = <<>>
    /\ resolves = [ r \in Resolvers |-> NoResolve ]

NoHoldings == [ pc |-> "idle" ]
NoHolding == [ pc |-> "idle" ]

\* processReport has not begun on the job
NoPipeline == [ pc |-> "none", left |-> 0, total |-> 0, handled |-> 0 ]

InitLater ==
    /\ InitTax
    /\ InitPrices
    /\ holdings = NoHoldings
    /\ holding = NoHolding
    /\ pipeline = [ j \in RequestIds |-> NoPipeline ]

Init ==
    /\ InitLedger
    /\ InitReports
    /\ InitLater
    /\ classified = [ tx |-> NoTx, events |-> <<>> ]
    /\ conv = NoConv

otherVars == <<run, jobs, requests, started, classified, conv, laterVars>>

----------------------------------------------------------------------------
(* calculateTaxes, one event of the job at a time.  The job belongs to      *)
(* address; each action is one pass of the loop body at lines 51-143.       *)

\* case AIRDROP, case STAKING
IncomeEvent(address, event) ==
    /\ event.category \in {"AIRDROP", "STAKING"}
    /\ IF Truthy(event.tokenInUsd)
       THEN /\ Len(costLots) < MaxLots
            /\ costLots' = createCostLot(costLots, address, event.tokenIn,
                               event.timestamp, event.txHash,
                               event.tokenInAmount, event.tokenInUsd)
       ELSE costLots' = costLots
    /\ lastOp' = NoOp
    /\ gain' = NoGain
    /\ UNCHANGED <<disposedUnits, otherVars>>

\* case DISPOSAL, calculateDisposalGain returned null
DisposalWithoutTokenOut(address, event) ==
    /\ event.category = "DISPOSAL"
    /\ ~HasTokenOut(event)
    /\ lastOp' = NoOp
    /\ gain' = NoGain
    /\ UNCHANGED <<costLots, disposedUnits, otherVars>>

\* case DISPOSAL, calculateDisposalGain consumed lots; then the lot of the
\* token received
DisposalEvent(address, event) ==
    /\ event.category = "DISPOSAL"
    /\ HasTokenOut(event)
    /\ \E lots \in FifoSnapshots(costLots, address, event.tokenOut) :
         LET done == ConsumeAll(costLots, StartDisposal(event), lots, 1, event)
         IN  /\ gain' = DisposalResult(done.acc, event)
             /\ disposedUnits' = AddDisposed(disposedUnits, address,
                                     event.tokenOut, done.acc.totalDisposed)
             /\ IF Truthy(event.tokenInUsd) /\ IsToken(event.tokenIn)
                THEN /\ Len(costLots) < MaxLots
                     /\ costLots' = createCostLot(done.table, address,
                                        event.tokenIn, event.timestamp,
                                        event.txHash, event.tokenInAmount,
                                        event.tokenInUsd)
                ELSE costLots' = done.table
    /\ lastOp' = [ address |-> address, event |-> event ]
    /\ UNCHANGED otherVars

\* case TRANSFER, case DEDUCTION
NonTaxableEvent(address, event) ==
    /\ event.category \in {"TRANSFER", "DEDUCTION"}
    /\ lastOp' = NoOp
    /\ gain' = NoGain
    /\ UNCHANGED <<costLots, disposedUnits, otherVars>>

Next ==
    \/ \E a \in Addresses : \E e \in EventsOf(a, IncomeEvents) : IncomeEvent(a, e)
    \/ \E a \in Addresses : \E e \in EventsOf(a, DisposalEvents) :
          DisposalWithoutTokenOut(a, e)
    \/ \E a \in Addresses : \E e \in EventsOf(a, DisposalEvents) : DisposalEvent(a, e)
    \/ \E a \in Addresses : \E e \in EventsOf(a, NonTaxableEvents) :
          NonTaxableEvent(a, e)

Spec == Init /\ [][Next]_vars


----------------------------------------------------------------------------
(* Properties of the ledger under Spec: the events of the jobs are handled  *)
(* one after the other, each pass of the loop body of calculateTaxes whole. *)

LotsOf(table, address, tokenAddress) ==
    { i \in DOMAIN table :
        table[i].address = address /\ table[i].tokenAddress = tokenAddress }

RECURSIVE SumOver(_, _, _)
SumOver(table, idx, field) ==
    IF idx = {} THEN 0
    ELSE LET i == CHOOSE x \in idx : TRUE
         IN  table[i][field] + SumOver(table, idx \ {i}, field)

\* the step handled a DISPOSAL event that reached the lot loop
IsDisposalStep == lastOp' # NoOp

\* C1: FIFO order.  Whenever a step decrements a lot, every lot of the same
\* (address, token) that was open before the step and was acquired earlier
\* is at remaining 0 after the step, stamped with the same disposing
\* transaction.
C1_FifoOrder ==
    [][ \A i \in DOMAIN costLots :
          costLots'[i].remainingAmount < costLots[i].remainingAmount =>
            \A k \in DOMAIN costLots :
              ( /\ LotIsOpen(costLots[k], costLots[i].address,
                             costLots[i].tokenAddress)
                /\ costLots[k].acquiredDate < costLots[i].acquiredDate )
              => /\ costLots'[k].remainingAmount = 0
                 /\ costLots'[k].disposedTxHash = lastOp'.event.txHash ]_vars

\* a disposal took units from two lots, the older of which was inserted
\* after the younger
C1_Witness ==
    /\ ~gain.isNull
    /\ Len(gain.parts) >= 2
    /\ gain.parts[1].lot > gain.parts[2].lot
    /\ costLots[gain.parts[1].lot].acquiredDate
         < costLots[gain.parts[2].lot].acquiredDate
    /\ gain.parts[2].units > 0

\* C2: conservation.  For every (address, token) the remaining amounts of its
\* lots add up to their original amounts minus the units disposals took.
C2_Conservation ==
    \A a \in Addresses, t \in Tokens :
        SumOver(costLots, LotsOf(costLots, a, t), "remainingAmount")
          = SumOver(costLots, LotsOf(costLots, a, t), "amount")
              - disposedUnits[<<a, t>>]

\* two lots of one (address, token), one of them partly consumed by a second
\* disposal
C2_Witness ==
    \E a \in Addresses, t \in Tokens :
        /\ Cardinality(LotsOf(costLots, a, t)) >= 2
        /\ disposedUnits[<<a, t>>] >= 2
        /\ \E i \in LotsOf(costLots, a, t) :
             /\ costLots[i].remainingAmount > 0
             /\ costLots[i].remainingAmount < costLots[i].amount - 1

\* C3: lot invariant.  Every lot has 0 <= remainingAmount <= amount and is
\* disposed exactly when remainingAmount is 0.
C3_LotInvariant ==
    \A i \in DOMAIN costLots :
        /\ 0 <= costLots[i].remainingAmount
        /\ costLots[i].remainingAmount <= costLots[i].amount
        /\ costLots[i].disposed <=> (costLots[i].remainingAmount = 0)

\* C9: ledger underflow.  A disposal of more units than the open lots of
\* (address, token) hold returns a result, leaves every one of these lots at
\* remaining 0 and disposed, and returns as cost basis the sum over these
\* lots of cost * floor(10000 * remaining / amount) / 10000, nothing more.
C9_Underflow ==
    [][ LET a    == lastOp'.address
            e    == lastOp'.event
            open == OpenLotIndexes(costLots, a, e.tokenOut)
            shares == [ i \in DOMAIN costLots |->
                          [ share |-> costLots[i].costBasisUsd
                              * ((costLots[i].remainingAmount * 10000)
                                   \div costLots[i].amount) ]
                            ]
        IN  ( /\ IsDisposalStep
              /\ e.tokenOutAmount > SumOver(costLots, open, "remainingAmount") )
            => /\ ~gain'.isNull
               /\ \A i \in open : /\ costLots'[i].remainingAmount = 0
                                  /\ costLots'[i].disposed
               /\ gain'.costBasis = SumOver(shares, open, "share") ]_vars

\* an underflowing disposal that consumed two lots with a positive cost
C9_Witness ==
    /\ lastOp # NoOp
    /\ ~gain.isNull
    /\ Len(gain.parts) = 2
    /\ gain.parts[1].units + gain.parts[2].units < lastOp.event.tokenOutAmount
    /\ gain.costBasis > 0

\* C10: a disposal of exactly the amount of one untouched lot, served by that
\* lot alone, returns the lot's costBasisUsd as cost basis.
C10_FullLot ==
    ( /\ lastOp # NoOp
      /\ ~gain.isNull
      /\ Len(gain.parts) = 1
      /\ gain.parts[1].units = costLots[gain.parts[1].lot].amount
      /\ lastOp.event.tokenOutAmount = costLots[gain.parts[1].lot].amount )
    => gain.costBasis = costLots[gain.parts[1].lot].costBasisUsd * RatioScale

\* such a disposal of a lot of MaxAmount units with a positive cost
C10_Witness ==
    /\ lastOp # NoOp
    /\ ~gain.isNull
    /\ Len(gain.parts) = 1
    /\ gain.parts[1].units = MaxAmount
    /\ costLots[gain.parts[1].lot].amount = MaxAmount
    /\ lastOp.event.tokenOutAmount = MaxAmount
    /\ gain.costBasis > 0

\* C20: every take of u >= 1 units from a lot of original amount a and cost
\* basis c contributes exactly c * u / a to the cost basis of the disposal.
C20_ExactShare ==
    ( lastOp # NoOp /\ ~gain.isNull ) =>
      \A p \in DOMAIN gain.parts :
         LET lot == costLots[gain.parts[p].lot]
         IN  gain.parts[p].units >= 1 =>
               gain.parts[p].cost * lot.amount
                 = lot.costBasisUsd * gain.parts[p].units * RatioScale


----------------------------------------------------------------------------
(* Two jobs of one address in their CALCULATING stage at the same time.     *)
(* createReport starts processReport without awaiting it, so a job for     *)
(* another period of the same address runs calculateTaxes while the first  *)
(* one does; the event loop switches between them at every await: the      *)
(* findMany, each costLot.update, the costLot.create.                       *)

\* both jobs are reports of this address
JobAddress(j) == "a1"

InLoop(j) == run[j].pc = "loop"

\* the loop of calculateDisposalGain has a row left and units left to take
HasNextLot(j) ==
    /\ InLoop(j)
    /\ run[j].k <= Len(run[j].lots)
    /\ run[j].acc.remainingToDispose > 0

\* lines 186-210: past the early return, the rows are read
FindLots(j, event) ==
    /\ run[j].pc = "idle"
    /\ event.category = "DISPOSAL"
    /\ HasTokenOut(event)
    /\ \E lots \in FifoSnapshots(costLots, JobAddress(j), event.tokenOut) :
         run' = [ run EXCEPT ![j] =
                    [ pc      |-> "loop",
                      outcome |-> "none",
                      applied |-> 0,
                      event   |-> event,
                      lots    |-> lots,
                      k       |-> 1,
                      acc     |-> StartDisposal(event) ] ]
    /\ UNCHANGED <<laterVars, costLots, disposedUnits, lastOp, gain, jobs, requests,
                   started, classified, conv>>

\* lines 212-250: one pass of the loop body, the update applied
ConsumeStep(j) ==
    /\ HasNextLot(j)
    /\ LET r   == run[j]
           lot == r.lots[r.k]
       IN  /\ costLots' = ConsumeTable(costLots, r.acc, lot, r.event)
           /\ disposedUnits' = AddDisposed(disposedUnits, JobAddress(j),
                 r.event.tokenOut,
                 ToTakeFromLot(r.acc.remainingToDispose, lot.remainingAmount))
           /\ run' = [ run EXCEPT ![j].acc = ConsumeLocals(r.acc, lot, r.event),
                                  ![j].k = r.k + 1,
                                  ![j].applied = r.applied + 1 ]
    /\ UNCHANGED <<laterVars, lastOp, gain, jobs, requests, started, classified, conv>>

\* lines 240-248 and 140-142: the update rejects (the connection fails, the
\* row was deleted); the catch of calculateTaxes logs it and goes on with
\* the next event
UpdateFails(j) ==
    /\ HasNextLot(j)
    /\ run' = [ run EXCEPT ![j] =
                  [ pc |-> "idle", outcome |-> "error",
                    applied |-> run[j].applied ] ]
    /\ UNCHANGED <<laterVars, costLots, disposedUnits, lastOp, gain, jobs, requests,
                   started, classified, conv>>

\* lines 253-267 and 86-117: the result is returned, the lot of the token
\* received is created
ReturnGain(j) ==
    /\ InLoop(j)
    /\ ~HasNextLot(j)
    /\ LET event == run[j].event
       IN  IF Truthy(event.tokenInUsd) /\ IsToken(event.tokenIn)
           THEN /\ Len(costLots) < MaxLots
                /\ costLots' = createCostLot(costLots, JobAddress(j),
                                   event.tokenIn, event.timestamp, event.txHash,
                                   event.tokenInAmount, event.tokenInUsd)
           ELSE costLots' = costLots
    /\ run' = [ run EXCEPT ![j] = IdleRun ]
    /\ UNCHANGED <<laterVars, disposedUnits, lastOp, gain, jobs, requests, started,
                   classified, conv>>

\* an AIRDROP or STAKING event of a job that is not inside a disposal
ConcIncome(j, event) ==
    /\ run[j].pc = "idle"
    /\ IncomeEvent(JobAddress(j), event)

\* the events of the two jobs: airdrops and disposals of one token
ConcIncomeEvents ==
    { e \in IncomeEvents :
        /\ e.category = "AIRDROP"
        /\ e.tokenIn = "T1"
        /\ e.tokenInAmount > 0
        /\ Truthy(e.tokenInUsd) }

ConcDisposalEvents ==
    { e \in DisposalEvents :
        /\ e.txHash = 2
        /\ e.tokenOut = "T1"
        /\ e.tokenOutAmount > 0
        /\ (IsToken(e.tokenIn) => Truthy(e.tokenInUsd) /\ e.tokenOutAmount = 1) }

NextConc ==
    \/ \E j \in JobIds : \E e \in ConcIncomeEvents : ConcIncome(j, e)
    \/ \E j \in JobIds : \E e \in ConcDisposalEvents : FindLots(j, e)
    \/ \E j \in JobIds : ConsumeStep(j)
    \/ \E j \in JobIds : UpdateFails(j)
    \/ \E j \in JobIds : ReturnGain(j)

SpecConc == Init /\ [][NextConc]_vars

\* C4: serialized lot mutation.  No job is about to overwrite a lot from a
\* remainingAmount that is no longer the lot's (another disposal has
\* decremented it since it was read), and conservation holds.
C4_SerializedDisposals ==
    /\ \A j \in JobIds :
         HasNextLot(j) =>
           \A i \in DOMAIN costLots :
             costLots[i].id = run[j].lots[run[j].k].id =>
               costLots[i].remainingAmount
                 = run[j].lots[run[j].k].remainingAmount
    /\ C2_Conservation

\* C6: all or nothing.  A disposal that was abandoned on an error has
\* applied none of its lot decrements.
C6_AllOrNothing ==
    \A j \in JobIds : run[j].outcome = "error" => run[j].applied = 0


----------------------------------------------------------------------------
(* createReport: the requests of the HTTP surface.  Each await of the      *)
(* handler is a point where another request runs: the findFirst, then the  *)
(* create; processReport is called, not awaited, right after the create.   *)

\* the (address, year, month, network) of a CreateReportDto; month NULL is
\* the full year
ReportDtos ==
    { [ address |-> "a1", year |-> 2024, month |-> m, network |-> "ethereum" ] :
        m \in {NULL, 3} }

\* a lookup that passes over the jobs that ended in ERROR
JobsMatchingNotFailed(dto) ==
    { i \in DOMAIN jobs : jobs[i].dto = dto /\ jobs[i].stage # "ERROR" }

\* the where clause of the findFirst
JobsMatching(dto) == { i \in DOMAIN jobs : jobs[i].dto = dto }

\* lines 26-43: the lookup; a request that finds a row returns its id
FindExisting(r, dto) ==
    /\ requests[r].pc = "idle"
    /\ IF JobsMatching(dto) # {}
       THEN \E i \in JobsMatching(dto) :
              requests' = [ requests EXCEPT ![r] =
                  [ pc |-> "done", dto |-> dto, jobId |-> jobs[i].id ] ]
       ELSE requests' = [ requests EXCEPT ![r] =
                  [ pc |-> "creating", dto |-> dto ] ]
    /\ UNCHANGED <<laterVars, costLots, disposedUnits, lastOp, gain, run, jobs, started,
                   classified, conv>>

\* lines 45-69: the row is created, processReport is started on it and the
\* new id is returned
CreateJob(r) ==
    /\ requests[r].pc = "creating"
    /\ LET id == Len(jobs) + 1
       IN  /\ jobs' = Append(jobs, [ id |-> id, dto |-> requests[r].dto,
                                      stage |-> "PENDING", progressPct |-> 0 ])
           /\ started' = Append(started, id)
           /\ requests' = [ requests EXCEPT ![r] =
                  [ pc |-> "done", dto |-> requests[r].dto, jobId |-> id ] ]
    /\ UNCHANGED <<laterVars, costLots, disposedUnits, lastOp, gain, run, classified, conv>>

NextReport ==
    \/ \E r \in RequestIds : \E dto \in ReportDtos : FindExisting(r, dto)
    \/ \E r \in RequestIds : CreateJob(r)

SpecReport == Init /\ [][NextReport]_vars

\* the job ids processReport was started on for a dto
StartedFor(dto) ==
    { k \in DOMAIN started :
        \E i \in JobsMatching(dto) : jobs[i].id = started[k] }

\* C5: deduplication.  Requests for one (address, year, month, network) that
\* have returned carry the same jobId, one job row exists for that key and
\* processReport was started once for it.
C5_Deduplicated ==
    \A r1, r2 \in RequestIds :
        ( /\ requests[r1].pc = "done"
          /\ requests[r2].pc = "done"
          /\ requests[r1].dto = requests[r2].dto )
        => /\ requests[r1].jobId = requests[r2].jobId
           /\ Cardinality(JobsMatching(requests[r1].dto)) = 1
           /\ Cardinality(StartedFor(requests[r1].dto)) = 1


----------------------------------------------------------------------------
(* classifyTransaction for a transaction whose tx.to is no known protocol  *)
(* contract: the fallback on the Transfer logs, then the ETH transfer,     *)
(* then the gas-only record.                                               *)

User == "user"
Pool == "pool"
ZeroAddress == "zero"

\* a Transfer log: the token contract that emitted it, topics[1], topics[2]
\* and the amount in data
TransferLogs ==
    [ address : Tokens, from : {User, Pool, ZeroAddress}, to : {User, Pool},
      amount : {1, MaxAmount} ]

RECURSIVE SeqsUpTo(_, _)
SeqsUpTo(S, n) ==
    IF n = 0 THEN { <<>> }
    ELSE LET shorter == SeqsUpTo(S, n - 1)
         IN  shorter \cup { Append(q, x) : q \in shorter, x \in S }

\* a missing recipient, a missing method selector, no registry protocol and
\* no method of a protocol
NoAddress == ""
NoSelector == ""
NoProtocol == ""
NoMethod == ""

\* a recipient outside the registry and a selector no protocol lists
OtherContract == "0xother"
OtherSelector == "0xffffffff"

\* a transaction to a contract outside the registry: its sender, its
\* recipient, its method selector, its value, its gas and its Transfer logs
\* in log order
Transactions ==
    [ from : {User, Pool}, to : {OtherContract}, methodSelector : {NoSelector},
      value : {0, 1}, gasUsed : {1}, gasPrice : {1},
      logs : SeqsUpTo(TransferLogs, MaxLogs) ]

ClassifiedEvent(category, tokenIn, tokenInAmount, tokenOut, tokenOutAmount, notes) ==
    [ category       |-> category,
      tokenIn        |-> tokenIn,
      tokenInAmount  |-> tokenInAmount,
      tokenOut       |-> tokenOut,
      tokenOutAmount |-> tokenOutAmount,
      notes          |-> notes ]

hasOutflow(transfers) == \E i \in DOMAIN transfers : transfers[i].from = User
hasInflow(transfers) == \E i \in DOMAIN transfers : transfers[i].to = User

\* the events of one Transfer log when the sender of an inflow is not
\* looked at
DirectTransferEventsAnySender(transfers, transfer) ==
    IF transfer.to = User
    THEN LET category == IF ~hasOutflow(transfers) THEN "AIRDROP" ELSE "TRANSFER"
         IN  << ClassifiedEvent(category, transfer.address, transfer.amount,
                    NoToken, NULL,
                    IF category = "AIRDROP" THEN "Potential airdrop/reward"
                                            ELSE "Token received") >>
    ELSE IF transfer.from = User
    THEN LET category == IF hasInflow(transfers) THEN "DISPOSAL" ELSE "TRANSFER"
         IN  << ClassifiedEvent(category, NoToken, NULL,
                    transfer.address, transfer.amount,
                    IF category = "DISPOSAL" THEN "Token swap/exchange"
                                             ELSE "Token sent") >>
    ELSE << >>

\* lines 335-386: the events one Transfer log adds
DirectTransferEvents(transfers, transfer) ==
    IF transfer.to = User
    THEN LET category ==
                 IF ~hasOutflow(transfers) \/ transfer.from = ZeroAddress
                 THEN "AIRDROP" ELSE "TRANSFER"
         IN  << ClassifiedEvent(category, transfer.address, transfer.amount,
                    NoToken, NULL,
                    IF category = "AIRDROP" THEN "Potential airdrop/reward"
                                            ELSE "Token received") >>
    ELSE IF transfer.from = User
    THEN LET category == IF hasInflow(transfers) THEN "DISPOSAL" ELSE "TRANSFER"
         IN  << ClassifiedEvent(category, NoToken, NULL,
                    transfer.address, transfer.amount,
                    IF category = "DISPOSAL" THEN "Token swap/exchange"
                                             ELSE "Token sent") >>
    ELSE << >>

RECURSIVE DirectEventsFrom(_, _)
DirectEventsFrom(transfers, i) ==
    IF i > Len(transfers) THEN << >>
    ELSE DirectTransferEvents(transfers, transfers[i])
           \o DirectEventsFrom(transfers, i + 1)

classifyByDirectTransfers(tx, transfers) == DirectEventsFrom(transfers, 1)

\* the keys of tokenMap, in insertion order
RECURSIVE TokenKeys(_, _)
TokenKeys(transfers, i) ==
    IF i = 0 THEN << >>
    ELSE LET before == TokenKeys(transfers, i - 1)
         IN  IF transfers[i].address \in Range(before)
             THEN before ELSE Append(before, transfers[i].address)

TransfersOf(transfers, token) == SelectSeq(transfers, LAMBDA t : t.address = token)

classifyByProxyTransfers(tx, transfers) ==
    LET tokens == TokenKeys(transfers, Len(transfers))
    IN  IF Len(tokens) >= 2
        THEN LET tokenOut == tokens[1]
                 tokenIn  == tokens[Len(tokens)]
                 ins      == TransfersOf(transfers, tokenIn)
             IN  << ClassifiedEvent("DISPOSAL", tokenIn, ins[Len(ins)].amount,
                        tokenOut, TransfersOf(transfers, tokenOut)[1].amount,
                        "Swap via aggregator/proxy") >>
        ELSE IF Len(tokens) = 1
        THEN << ClassifiedEvent("TRANSFER", NoToken, NULL, tokens[1],
                    TransfersOf(transfers, tokens[1])[1].amount,
                    "Token interaction via proxy") >>
        ELSE << >>

classifyByTransfers(tx) ==
    LET transfers == tx.logs
    IN  IF Len(transfers) = 0 THEN << >>
        ELSE IF hasInflow(transfers) \/ hasOutflow(transfers)
        THEN classifyByDirectTransfers(tx, transfers)
        ELSE IF tx.from = User
        THEN classifyByProxyTransfers(tx, transfers)
        ELSE << >>

ProtocolInfo(name, category, contracts, methods) ==
    [ name |-> name, category |-> category, contracts |-> contracts,
      methods |-> methods ]

\* the swap methods shared by the Uniswap V2 and SushiSwap routers
RouterSwapMethods ==
    ("0x38ed1739" :> "SWAP") @@ ("0x8803dbee" :> "SWAP")
      @@ ("0x7ff36ab5" :> "SWAP") @@ ("0x18cbafe5" :> "SWAP")

\* the protocol registry: per protocol its category, its contract addresses
\* and the category of each of its method selectors
PROTOCOLS ==
    [ uniswap_v2 |->
        ProtocolInfo("Uniswap V2", "DEX",
          { "0x7a250d5630b4cf539739df2c5dacb4c659f2488d" },
          RouterSwapMethods),
      uniswap_v3 |->
        ProtocolInfo("Uniswap V3", "DEX",
          { "0xe592427a0aece92de3edee1f18e0157c05861564",
            "0x68b3465833fb72a70ecdf485e0e4c7bd8665fc45" },
          ("0x414bf389" :> "SWAP") @@ ("0xb858183f" :> "SWAP")
            @@ ("0xdb3e2198" :> "SWAP") @@ ("0x09b81346" :> "SWAP")),
      lido |->
        ProtocolInfo("Lido", "STAKING",
          { "0xae7ab96520de3a18e5e111b5eaab095312d7fe84",
            "0x889edc2edab5f40e902b864ad4d7ade8e412f9b1" },
          ("0xa1903eab" :> "STAKE") @@ ("0x00f714ce" :> "STAKE")
            @@ ("0x3a4b66f1" :> "WITHDRAW") @@ ("0xf7ec0e5e" :> "CLAIM")),
      rocket_pool |->
        ProtocolInfo("Rocket Pool", "STAKING",
          { "0xae78736cd615f374d3085123a210448e74fc6393",
            "0x2cac916b2a963bf162f076c0a8a4a8200bcfbfb4" },
          ("0xd0e30db0" :> "DEPOSIT") @@ ("0x2e1a7d4d" :> "WITHDRAW")),
      aave_v2 |->
        ProtocolInfo("Aave V2", "LENDING",
          { "0x7d2768de32b0b80b7a3454c06bdac94a69ddc7a9" },
          ("0xe8eda9df" :> "DEPOSIT") @@ ("0x69328dec" :> "WITHDRAW")
            @@ ("0xa415bcad" :> "BORROW") @@ ("0x573ade81" :> "REPAY")),
      aave_v3 |->
        ProtocolInfo("Aave V3", "LENDING",
          { "0x87870bca3f3fd6335c3f4ce8392d69350b4fa4e2" },
          ("0x617ba037" :> "DEPOSIT") @@ ("0x69328dec" :> "WITHDRAW")
            @@ ("0xa415bcad" :> "BORROW") @@ ("0x573ade81" :> "REPAY")),
      compound_v2 |->
        ProtocolInfo("Compound V2", "LENDING",
          { "0x5d3a536e4d6dbd6114cc1ead35777bab948e3643",
            "0x4ddc2d193948926d02f9b1fe9e1daa0718270ed5",
            "0x39aa39c021dfbae8fac545936693ac917d5e7563",
            "0xf650c3d88d12db855b8bf7d11be6c55a4e07dcc9" },
          ("0xa0712d68" :> "DEPOSIT") @@ ("0xdb006a75" :> "WITHDRAW")
            @@ ("0xc5ebeaec" :> "BORROW") @@ ("0x0e752702" :> "REPAY")),
      curve |->
        ProtocolInfo("Curve", "DEX",
          { "0xbebc44782c7db0a1a60cb6fe97d0b483032ff1c7",
            "0xd51a44d3fae010294c616388b506acda1bfaae46",
            "0xa5407eae9ba41422680e2e00537571bcc53efbfd" },
          ("0x3df02124" :> "SWAP") @@ ("0x394747c5" :> "SWAP")
            @@ ("0x0b4c7e4d" :> "DEPOSIT") @@ ("0x5b36389c" :> "WITHDRAW")),
      oneinch |->
        ProtocolInfo("1inch", "DEX",
          { "0x1111111254eeb25477b68fb85ed929f73a960582",
            "0x111111125421ca6dc452d289314280a0f8842a65" },
          ("0x12aa3caf" :> "SWAP") @@ ("0x7c025200" :> "SWAP")
            @@ ("0xe449022e" :> "SWAP")),
      balancer_v2 |->
        ProtocolInfo("Balancer V2", "DEX",
          { "0xba12222222228d8ba445958a75a0704d566bf2c8" },
          ("0x52bbbe29" :> "SWAP") @@ ("0x945bcec9" :> "SWAP")
            @@ ("0xb95cac28" :> "DEPOSIT") @@ ("0x8bdb3913" :> "WITHDRAW")),
      sushiswap |->
        ProtocolInfo("SushiSwap", "DEX",
          { "0xd9e1ce17f2641f24ae83637ab66a2cca9c378b9f" },
          RouterSwapMethods),
      yearn |->
        ProtocolInfo("Yearn Finance", "YIELD",
          { "0xda816459f1ab5631232fe5e97a05bbbb94970c95",
            "0xa354f35829ae975e850e23e9615b11da1b3dc4de" },
          ("0xb6b55f25" :> "DEPOSIT") @@ ("0x2e1a7d4d" :> "WITHDRAW")
            @@ ("0x3ccfd60b" :> "WITHDRAW")) ]

RegistryContracts == UNION { PROTOCOLS[p].contracts : p \in DOMAIN PROTOCOLS }
RegistrySelectors == UNION { DOMAIN PROTOCOLS[p].methods : p \in DOMAIN PROTOCOLS }

\* the reverse lookup address -> protocolId; NoProtocol for an address
\* outside the registry
CONTRACT_TO_PROTOCOL(address) ==
    IF address \in RegistryContracts
    THEN CHOOSE p \in DOMAIN PROTOCOLS : address \in PROTOCOLS[p].contracts
    ELSE NoProtocol

\* protocol.methods[tx.methodSelector], NoMethod when the selector is absent
\* or not a method of this protocol
MethodInfoOf(protocol, methodSelector) ==
    IF methodSelector # NoSelector /\ methodSelector \in DOMAIN protocol.methods
    THEN protocol.methods[methodSelector]
    ELSE NoMethod

\* the category chain with the deposit branch tried before the staking one
KnownProtocolCategoryDepositFirst(protocol, methodCategory) ==
    IF protocol.category = "DEX" /\ methodCategory = "SWAP" THEN "DISPOSAL"
    ELSE IF methodCategory \in {"DEPOSIT", "STAKE"} THEN "DISPOSAL"
    ELSE IF protocol.category = "STAKING" /\ methodCategory = "STAKE" THEN "STAKING"
    ELSE IF methodCategory \in {"WITHDRAW", "CLAIM"} THEN "TRANSFER"
    ELSE IF methodCategory = "BORROW" THEN "TRANSFER"
    ELSE IF methodCategory = "REPAY" THEN "DISPOSAL"
    ELSE "DEDUCTION"

\* the tax category of a known method of a known protocol
KnownProtocolCategory(protocol, methodCategory) ==
    IF protocol.category = "DEX" /\ methodCategory = "SWAP" THEN "DISPOSAL"
    ELSE IF protocol.category = "STAKING" /\ methodCategory = "STAKE" THEN "STAKING"
    ELSE IF methodCategory \in {"DEPOSIT", "STAKE"} THEN "DISPOSAL"
    ELSE IF methodCategory \in {"WITHDRAW", "CLAIM"} THEN "TRANSFER"
    ELSE IF methodCategory = "BORROW" THEN "TRANSFER"
    ELSE IF methodCategory = "REPAY" THEN "DISPOSAL"
    ELSE "DEDUCTION"

KnownProtocolNotes(protocol, methodCategory) ==
    IF protocol.category = "DEX" /\ methodCategory = "SWAP"
    THEN protocol.name \o " swap"
    ELSE IF protocol.category = "STAKING" /\ methodCategory = "STAKE"
    THEN protocol.name \o " staking"
    ELSE IF methodCategory \in {"DEPOSIT", "STAKE"} THEN protocol.name \o " deposit"
    ELSE IF methodCategory \in {"WITHDRAW", "CLAIM"} THEN protocol.name \o " withdrawal"
    ELSE IF methodCategory = "BORROW" THEN protocol.name \o " borrow"
    ELSE IF methodCategory = "REPAY" THEN protocol.name \o " repay"
    ELSE protocol.name \o " - method"

\* the one event of a call to a known method of a registry contract: the
\* first Transfer out of the user is the token sent, the last Transfer to
\* the user the token received, and the ETH value stands in for a missing
\* token sent
classifyKnownProtocol(tx, protocol, methodCategory) ==
    LET transfers        == tx.logs
        userTransfersOut == SelectSeq(transfers, LAMBDA t : t.from = User)
        userTransfersIn  == SelectSeq(transfers, LAMBDA t : t.to = User)
        hasOut           == Len(userTransfersOut) > 0
        hasIn            == Len(userTransfersIn) > 0
        ethOut           == tx.value > 0 /\ ~hasOut
    IN  ClassifiedEvent(
            KnownProtocolCategory(protocol, methodCategory),
            IF hasIn THEN userTransfersIn[Len(userTransfersIn)].address ELSE NoToken,
            IF hasIn THEN userTransfersIn[Len(userTransfersIn)].amount ELSE NULL,
            IF hasOut THEN userTransfersOut[1].address
            ELSE IF ethOut THEN "ETH" ELSE NoToken,
            IF hasOut THEN userTransfersOut[1].amount
            ELSE IF ethOut THEN tx.value ELSE NULL,
            KnownProtocolNotes(protocol, methodCategory))
          @@ [ protocol |-> protocol.name ]

\* the generic classification when the gas-fee event is recorded without
\* looking at the events already made
classifyFallbackAlwaysDeduction(tx) ==
    LET transferEvents == classifyByTransfers(tx)
        deduction == ClassifiedEvent("DEDUCTION", NoToken, NULL, NoToken, NULL,
                         "Gas fee only")
    IN  IF Len(transferEvents) > 0 THEN transferEvents
        ELSE IF tx.value > 0
        THEN << ClassifiedEvent("TRANSFER", NoToken, NULL, "ETH", tx.value,
                    "ETH transfer"), deduction >>
        ELSE << deduction >>

\* the generic classification: the Transfer logs, else the ETH value, else
\* the gas fee alone
classifyFallback(tx) ==
    LET transferEvents == classifyByTransfers(tx)
    IN  IF Len(transferEvents) > 0 THEN transferEvents
        ELSE IF tx.value > 0
        THEN << ClassifiedEvent("TRANSFER", NoToken, NULL, "ETH", tx.value,
                    "ETH transfer") >>
        ELSE << ClassifiedEvent("DEDUCTION", NoToken, NULL, NoToken, NULL,
                    "Gas fee only") >>

\* the gas fee left out of the events that are not a gas-only event
gasFeeEthOfDeduction(tx, event) ==
    IF event.category = "DEDUCTION" THEN tx.gasUsed * tx.gasPrice ELSE 0

\* the gas fee every event of the transaction is given, in units of the
\* native asset
gasFeeEth(tx, event) == tx.gasUsed * tx.gasPrice

classifyTransaction(tx) ==
    LET protocolId == IF tx.to # NoAddress THEN CONTRACT_TO_PROTOCOL(tx.to)
                      ELSE NoProtocol
        events == IF protocolId # NoProtocol
                     /\ MethodInfoOf(PROTOCOLS[protocolId], tx.methodSelector) # NoMethod
                  THEN << classifyKnownProtocol(tx, PROTOCOLS[protocolId],
                              MethodInfoOf(PROTOCOLS[protocolId], tx.methodSelector)) >>
                  ELSE classifyFallback(tx)
    IN  [ k \in DOMAIN events |->
            events[k] @@ [ gasFeeEth |-> gasFeeEth(tx, events[k]) ] ]

\* a transaction of the job, not classified yet
InitClassify ==
    /\ InitLedger
    /\ InitReports
    /\ InitLater
    /\ \E tx \in Transactions : classified = [ tx |-> tx, events |-> << >> ]
    /\ conv = NoConv

ClassifyTransaction ==
    /\ classified.tx # NoTx
    /\ classified.events = << >>
    /\ classified' = [ classified EXCEPT !.events = classifyTransaction(classified.tx) ]
    /\ UNCHANGED <<laterVars, costLots, disposedUnits, lastOp, gain, run, jobs, requests,
                   started, conv>>

NextClassify == ClassifyTransaction

SpecClassify == InitClassify /\ [][NextClassify]_vars

\* a log that moves tokens from another party to the user, and one that
\* moves tokens from the user to another party
IsInflowLeg(t) == t.to = User /\ t.from # User
IsOutflowLeg(t) == t.from = User /\ t.to # User

\* C7: a classified transaction with an inflow to the user and an outflow
\* from the user has one event, a DISPOSAL whose tokenOut is the token of an
\* outflow log and whose tokenIn is the token of an inflow log.
C7_SingleDisposal ==
    LET transfers == classified.tx.logs
        events    == classified.events
    IN  ( /\ classified.tx # NoTx
          /\ events # << >>
          /\ \E i \in DOMAIN transfers : IsInflowLeg(transfers[i])
          /\ \E i \in DOMAIN transfers : IsOutflowLeg(transfers[i]) )
        => /\ Len(events) = 1
           /\ events[1].category = "DISPOSAL"
           /\ \E i \in DOMAIN transfers :
                /\ transfers[i].from = User
                /\ transfers[i].address = events[1].tokenOut
           /\ \E i \in DOMAIN transfers :
                /\ transfers[i].to = User
                /\ transfers[i].address = events[1].tokenIn


----------------------------------------------------------------------------
(* The conversions of a raw integer amount to token units.  Raw amounts    *)
(* are digit strings, most significant digit first, as in the database.    *)

USDC == "0xa0b86991c6218b36c1d19d4a2e9eb0ce3606eb48"
USDT == "0xdac17f958d2ee523a2206206994597c13d831ec7"
BUSD == "0x4fabb145d64652a948d72533023f6e7a623c7c53"
WBTC == "0x2260fac5e5542a773aa44fbcfedf7c193bc2c599"
WETH == "0xc02aaa39b223fe8d0a0e5c4f27ead9083c756cc2"

TokenAddresses == {USDC, USDT, BUSD, WBTC, WETH}

DefaultDecimals == 18

\* TOKEN_DECIMALS of the pricing service and its getTokenDecimals
PricingTokenDecimals(tokenAddress) ==
    CASE tokenAddress = USDC -> 6
      [] tokenAddress = USDT -> 6
      [] tokenAddress = WBTC -> 8
      [] OTHER -> DefaultDecimals

\* TOKEN_DECIMALS of the pricer service and its getTokenDecimals
PricerTokenDecimals(tokenAddress) ==
    CASE tokenAddress = "ETH" -> DefaultDecimals
      [] tokenAddress = USDC -> 6
      [] tokenAddress = USDT -> 6
      [] tokenAddress = BUSD -> 6
      [] tokenAddress = WBTC -> 8
      [] OTHER -> DefaultDecimals

\* lot.tokenDecimals || 18
LotTokenDecimals(tokenDecimals) ==
    IF tokenDecimals = NULL \/ tokenDecimals = 0
    THEN DefaultDecimals ELSE tokenDecimals

\* what the tokenDecimals column of a lot can hold: createCostLot passes no
\* value, so it is null or the one default of the column
StoredTokenDecimals == {NULL, 6, 8, DefaultDecimals}

Zeros(n) == [ i \in 1..n |-> 0 ]

RECURSIVE StripTrailingZeros(_)
StripTrailingZeros(digits) ==
    IF Len(digits) > 1 /\ digits[Len(digits)] = 0
    THEN StripTrailingZeros(SubSeq(digits, 1, Len(digits) - 1))
    ELSE digits

\* ethers.utils.formatUnits: the digits before and after the decimal point
formatUnits(digits, decimals) ==
    LET padded == IF Len(digits) <= decimals
                  THEN Zeros(decimals + 1 - Len(digits)) \o digits
                  ELSE digits
        point  == Len(padded) - decimals
    IN  [ whole    |-> SubSeq(padded, 1, point),
          fraction |-> StripTrailingZeros(SubSeq(padded, point + 1, Len(padded))) ]

Sites == { "enrichWithPrices", "priceTaxEvents", "calculateDisposalGain",
           "calculateUnrealizedGains", "getUnrealizedHoldings" }

\* the decimal count each conversion site uses
DecimalsAt(site, tokenAddress, tokenDecimals) ==
    CASE site = "enrichWithPrices"         -> PricingTokenDecimals(tokenAddress)
      [] site = "priceTaxEvents"           -> PricerTokenDecimals(tokenAddress)
      [] site = "calculateDisposalGain"    -> PricingTokenDecimals(tokenAddress)
      [] site = "calculateUnrealizedGains" -> PricingTokenDecimals(tokenAddress)
      [] site = "getUnrealizedHoldings"    -> LotTokenDecimals(tokenDecimals)

RawAmounts ==
    { <<1, 5, 4, 3, 9, 7, 8, 7, 1, 5, 0, 9>>, <<1, 0, 0, 0, 0, 0, 0>>, <<2, 5>> }

NoUnits == [ decimals |-> NULL ]

\* an amount of a token held in a lot, not converted anywhere yet
InitDecimals ==
    /\ InitLedger
    /\ InitReports
    /\ InitLater
    /\ classified = [ tx |-> NoTx, events |-> << >> ]
    /\ \E tokenAddress \in TokenAddresses, raw \in RawAmounts,
          tokenDecimals \in StoredTokenDecimals :
         conv = [ token         |-> tokenAddress,
                  raw           |-> raw,
                  tokenDecimals |-> tokenDecimals,
                  units         |-> [ s \in Sites |-> NoUnits ] ]

\* the site has not converted the amount yet
CanConvert(site) == conv.token # NoToken /\ conv.units[site] = NoUnits

\* the amount as the site converts it
ConvertAt(site) ==
    LET decimals == DecimalsAt(site, conv.token, conv.tokenDecimals)
    IN  [ conv EXCEPT !.units[site] =
            [ decimals |-> decimals,
              units    |-> formatUnits(conv.raw, decimals) ] ]

\* enrichWithPrices: parseFloat(amount) / Math.pow(10, decimals)
EnrichConversion ==
    /\ CanConvert("enrichWithPrices")
    /\ conv' = ConvertAt("enrichWithPrices")
    /\ UNCHANGED <<laterVars, costLots, disposedUnits, lastOp, gain, run, jobs, requests,
                   started, classified>>

\* priceTaxEvents: formatUnits(amount, decimals)
PricerConversion ==
    /\ CanConvert("priceTaxEvents")
    /\ conv' = ConvertAt("priceTaxEvents")
    /\ UNCHANGED <<laterVars, costLots, disposedUnits, lastOp, gain, run, jobs, requests,
                   started, classified>>

\* calculateDisposalGain: tokensDisposed, totalDisposedTokens
DisposalConversion ==
    /\ CanConvert("calculateDisposalGain")
    /\ conv' = ConvertAt("calculateDisposalGain")
    /\ UNCHANGED <<laterVars, costLots, disposedUnits, lastOp, gain, run, jobs, requests,
                   started, classified>>

\* calculateUnrealizedGains: remainingTokens
UnrealizedGainsConversion ==
    /\ CanConvert("calculateUnrealizedGains")
    /\ conv' = ConvertAt("calculateUnrealizedGains")
    /\ UNCHANGED <<laterVars, costLots, disposedUnits, lastOp, gain, run, jobs, requests,
                   started, classified>>

\* getUnrealizedHoldings: remainingTokens
HoldingsConversion ==
    /\ CanConvert("getUnrealizedHoldings")
    /\ conv' = ConvertAt("getUnrealizedHoldings")
    /\ UNCHANGED <<laterVars, costLots, disposedUnits, lastOp, gain, run, jobs, requests,
                   started, classified>>

NextDecimals ==
    \/ EnrichConversion
    \/ PricerConversion
    \/ DisposalConversion
    \/ UnrealizedGainsConversion
    \/ HoldingsConversion

SpecDecimals == InitDecimals /\ [][NextDecimals]_vars

\* C8: every conversion site divides by 10^d with the token's own d: the
\* sites that have converted agree on d, d is 6 for USDC and USDT and 8 for
\* WBTC, and raw 154397871509 of a 6-decimal stablecoin is 154397.871509.
C8_OwnDecimals ==
    \A s1 \in Sites :
        conv.token # NoToken /\ conv.units[s1] # NoUnits
        => /\ \A s2 \in Sites :
                conv.units[s2] # NoUnits
                => conv.units[s2].decimals = conv.units[s1].decimals
           /\ conv.token \in {USDC, USDT} => conv.units[s1].decimals = 6
           /\ conv.token = WBTC => conv.units[s1].decimals = 8
           /\ ( /\ conv.token \in {USDC, USDT}
                /\ conv.raw = <<1, 5, 4, 3, 9, 7, 8, 7, 1, 5, 0, 9>> )
              => conv.units[s1].units =
                   [ whole    |-> <<1, 5, 4, 3, 9, 7>>,
                     fraction |-> <<8, 7, 1, 5, 0, 9>> ]

----------------------------------------------------------------------------
(* Natural numbers of any size, for the 53-bit arithmetic below: limbs of    *)
(* LimbBits bits, least significant first, the last limb not 0; the empty   *)
(* sequence is 0.                                                          *)

LimbBits == 15
LimbBase == 2 ^ LimbBits

RECURSIVE BigNorm(_)
BigNorm(a) ==
    IF a # << >> /\ a[Len(a)] = 0 THEN BigNorm(SubSeq(a, 1, Len(a) - 1)) ELSE a

RECURSIVE BigFromInt(_)
BigFromInt(n) ==
    IF n = 0 THEN << >> ELSE << n % LimbBase >> \o BigFromInt(n \div LimbBase)

RECURSIVE BigToInt(_)
BigToInt(a) == IF a = << >> THEN 0 ELSE Head(a) + LimbBase * BigToInt(Tail(a))

BigLimb(a, i) == IF 1 <= i /\ i <= Len(a) THEN a[i] ELSE 0

RECURSIVE BigAddFrom(_, _, _, _)
BigAddFrom(a, b, i, carry) ==
    IF i > Len(a) /\ i > Len(b)
    THEN (IF carry > 0 THEN << carry >> ELSE << >>)
    ELSE LET t == BigLimb(a, i) + BigLimb(b, i) + carry
         IN  << t % LimbBase >> \o BigAddFrom(a, b, i + 1, t \div LimbBase)

BigAdd(a, b) == BigAddFrom(a, b, 1, 0)

\* a - b for a >= b
RECURSIVE BigSubFrom(_, _, _, _)
BigSubFrom(a, b, i, borrow) ==
    IF i > Len(a) THEN << >>
    ELSE LET t == BigLimb(a, i) - BigLimb(b, i) - borrow
         IN  << (t + LimbBase) % LimbBase >>
               \o BigSubFrom(a, b, i + 1, IF t < 0 THEN 1 ELSE 0)

BigSub(a, b) == BigNorm(BigSubFrom(a, b, 1, 0))

RECURSIVE BigLessFrom(_, _, _)
BigLessFrom(a, b, i) ==
    IF i = 0 THEN FALSE
    ELSE IF a[i] # b[i] THEN a[i] < b[i]
    ELSE BigLessFrom(a, b, i - 1)

BigLess(a, b) ==
    IF Len(a) # Len(b) THEN Len(a) < Len(b) ELSE BigLessFrom(a, b, Len(a))

\* a * 2^k
BigShl(a, k) ==
    LET t      == k % LimbBits
        whole  == k \div LimbBits
        high   == 2 ^ (LimbBits - t)
        moved  == [ i \in 1..(Len(a) + 1) |->
                      (BigLimb(a, i) % high) * (2 ^ t) + BigLimb(a, i - 1) \div high ]
    IN  IF a = << >> THEN << >>
        ELSE [ i \in 1..whole |-> 0 ] \o BigNorm(SubSeq(moved, 1, Len(a) + 1))

\* floor(a / 2^k)
BigShr(a, k) ==
    LET t      == k % LimbBits
        whole  == k \div LimbBits
        low    == 2 ^ t
        rest   == IF whole >= Len(a) THEN << >> ELSE SubSeq(a, whole + 1, Len(a))
        moved  == [ i \in 1..Len(rest) |->
                      rest[i] \div low
                        + (BigLimb(rest, i + 1) % low) * (2 ^ (LimbBits - t)) ]
    IN  BigNorm(SubSeq(moved, 1, Len(rest)))

\* bit i of a, bit 1 the least significant
BigBit(a, i) ==
    (BigLimb(a, (i - 1) \div LimbBits + 1) \div (2 ^ ((i - 1) % LimbBits))) % 2

\* the number of bits of a
BigBitLen(a) ==
    IF a = << >> THEN 0
    ELSE (Len(a) - 1) * LimbBits
           + Cardinality({ k \in 0..(LimbBits - 1) : 2 ^ k <= a[Len(a)] })

\* a * k for 0 <= k < LimbBase
RECURSIVE BigScaleFrom(_, _, _, _)
BigScaleFrom(a, k, i, carry) ==
    IF i > Len(a) THEN (IF carry > 0 THEN << carry >> ELSE << >>)
    ELSE LET t == a[i] * k + carry
         IN  << t % LimbBase >> \o BigScaleFrom(a, k, i + 1, t \div LimbBase)

BigScale(a, k) == BigNorm(BigScaleFrom(a, k, 1, 0))

RECURSIVE BigMulLimbs(_, _, _)
BigMulLimbs(a, b, j) ==
    IF j > Len(b) THEN << >>
    ELSE BigAdd([ i \in 1..(j - 1) |-> 0 ] \o BigScale(a, b[j]),
                BigMulLimbs(a, b, j + 1))

BigMul(a, b) == IF a = << >> \/ b = << >> THEN << >> ELSE BigNorm(BigMulLimbs(a, b, 1))

RECURSIVE BigPow10(_)
BigPow10(n) == IF n = 0 THEN << 1 >> ELSE BigScale(BigPow10(n - 1), 10)

\* long division, one bit of n at a time; st is the quotient and the
\* remainder of the bits of n above bit i
BigDivStep(n, d, i, st) ==
    LET r2 == BigAdd(BigShl(st.r, 1), BigFromInt(BigBit(n, i)))
        q2 == BigShl(st.q, 1)
    IN  IF BigLess(r2, d)
        THEN [ q |-> q2, r |-> r2 ]
        ELSE [ q |-> BigAdd(q2, << 1 >>), r |-> BigSub(r2, d) ]

\* the steps for bits hi down to lo; the upper half of the range is worked
\* out in full before the lower half starts from its result
RECURSIVE BigDivBits(_, _, _, _, _)
BigDivBits(n, d, hi, lo, st) ==
    IF hi < lo THEN st
    ELSE IF hi = lo THEN BigDivStep(n, d, hi, st)
    ELSE LET mid == (hi + lo) \div 2
             top == BigDivBits(n, d, hi, mid + 1, st)
         IN  IF Len(top.q) >= 0 /\ Len(top.r) >= 0
             THEN BigDivBits(n, d, mid, lo, top)
             ELSE top

\* the bits of n above the top BigBitLen(d) - 1 ones are the first remainder:
\* it is below d, so the quotient bits of these steps are 0
BigDivMod(n, d) ==
    LET low == BigBitLen(n) - (BigBitLen(d) - 1)
    IN  IF low <= 0 THEN [ q |-> << >>, r |-> n ]
        ELSE BigDivBits(n, d, low, 1, [ q |-> << >>, r |-> BigShr(n, low) ])

(* IEEE 754 double precision, non-negative finite values: m * 2^e with m   *)
(* of 53 bits, or m = 0.  Every operation rounds the exact result to the   *)
(* nearest such value, a tie to the even m.                                *)

MantissaBits == 53

F64Zero == [ m |-> << >>, e |-> 0 ]

\* the shift that gives the quotient of n * 2^s by d 54 or 55 bits
F64Shift(n, d) == MantissaBits + 1 + BigBitLen(d) - BigBitLen(n)

\* quotient and remainder of n * 2^s by d
F64Quotient(n, d, s) ==
    IF d # << 1 >>
    THEN BigDivMod(IF s >= 0 THEN BigShl(n, s) ELSE n,
                   IF s >= 0 THEN d ELSE BigShl(d, 0 - s))
    ELSE IF s >= 0 THEN [ q |-> BigShl(n, s), r |-> << >> ]
    ELSE [ q |-> BigShr(n, 0 - s),
           r |-> BigSub(n, BigShl(BigShr(n, 0 - s), 0 - s)) ]

\* q without its last drop bits, rounded to nearest, a tie to even; r is the
\* remainder below q
F64Nearest(q, r, drop) ==
    LET kept == BigShr(q, drop)
        low  == q[1] % (2 ^ drop)
        half == 2 ^ (drop - 1)
    IN  IF \/ low > half
           \/ low = half /\ (r # << >> \/ kept[1] % 2 = 1)
        THEN BigAdd(kept, << 1 >>)
        ELSE kept

\* m * 2^e with m brought back to 53 bits after a carry out of the rounding
F64Pack(m, e) ==
    IF BigBitLen(m) > MantissaBits
    THEN [ m |-> BigShr(m, 1), e |-> e + 1 ]
    ELSE [ m |-> m, e |-> e ]

F64FromQuotient(qr, e) ==
    F64Pack(F64Nearest(qr.q, qr.r, BigBitLen(qr.q) - MantissaBits),
            e + BigBitLen(qr.q) - MantissaBits)

\* the double nearest to (n / d) * 2^e
F64Round(n, d, e) ==
    IF n = << >> THEN F64Zero
    ELSE F64FromQuotient(F64Quotient(n, d, F64Shift(n, d)), e - F64Shift(n, d))

\* parseFloat of the decimal string of raw / 10^decimals
F64FromUnits(raw, decimals) == F64Round(BigFromInt(raw), BigPow10(decimals), 0)

F64FromInt(n) == F64Round(BigFromInt(n), << 1 >>, 0)

F64Mul(x, y) == F64Round(BigMul(x.m, y.m), << 1 >>, x.e + y.e)

F64Add(x, y) ==
    IF x.m = << >> THEN y
    ELSE IF y.m = << >> THEN x
    ELSE LET e == IF x.e < y.e THEN x.e ELSE y.e
         IN  F64Round(BigAdd(BigShl(x.m, x.e - e), BigShl(y.m, y.e - e)), << 1 >>, e)

\* x / y for y > 0
F64Div(x, y) == F64Round(x.m, y.m, x.e - y.e)

\* Math.floor, for values that fit an integer
F64Floor(x) ==
    IF x.e >= 0 THEN BigToInt(BigShl(x.m, x.e)) ELSE BigToInt(BigShr(x.m, 0 - x.e))

----------------------------------------------------------------------------
(* The holding period of calculateDisposalGain, as JavaScript computes it:  *)
(* holdingDays is an integer, every token amount goes through formatUnits   *)
(* and parseFloat, and the sum, the products and the quotient are doubles.  *)

\* the tokens disposed of: 6, 8 and 18 decimals
HoldingTokens == {USDC, WBTC, WETH}

\* whole days between the acquisition of a lot and the disposal
HeldDays == {0, 29, 60, 364, 365}

\* raw amounts taken from a lot
TakenUnits == {1, 3, 11, 500000, 1000000}

\* the doubles of the amounts of up to 2 * MaxAmount raw units of a token of
\* 18 decimals, worked out once
SmallUnitsAsDouble ==
    SubSeq([ u \in 1..(2 * MaxAmount) |-> F64FromUnits(u, DefaultDecimals) ],
           1, 2 * MaxAmount)

\* parseFloat(ethers.utils.formatUnits(amount, tokenDecimals))
tokensDisposed(amount, tokenDecimals) ==
    IF tokenDecimals = DefaultDecimals /\ amount \in 1..(2 * MaxAmount)
    THEN SmallUnitsAsDouble[amount]
    ELSE F64FromUnits(amount, tokenDecimals)

\* weightedHoldingPeriod += holdingDays * tokensDisposed
AddWeighted(weightedHoldingPeriod, holdingDays, amount, tokenDecimals) ==
    F64Add(weightedHoldingPeriod,
           F64Mul(F64FromInt(holdingDays), tokensDisposed(amount, tokenDecimals)))

\* totalDisposedTokens > 0 ? Math.floor(weighted / totalDisposedTokens) : 0
avgHoldingPeriod(weightedHoldingPeriod, totalDisposed, tokenDecimals) ==
    IF totalDisposed > 0
    THEN F64Floor(F64Div(weightedHoldingPeriod,
                         tokensDisposed(totalDisposed, tokenDecimals)))
    ELSE 0

\* the weighted holding period of a sequence of takes, from take k on
RECURSIVE WeightedFrom(_, _, _, _)
WeightedFrom(takes, k, tokenDecimals, weightedHoldingPeriod) ==
    IF k > Len(takes) THEN weightedHoldingPeriod
    ELSE WeightedFrom(takes, k + 1, tokenDecimals,
             AddWeighted(weightedHoldingPeriod, takes[k].holdingDays,
                         takes[k].units, tokenDecimals))

\* the holdingPeriod calculateDisposalGain returns for a sequence of takes
HoldingPeriodOf(takes, tokenDecimals) ==
    avgHoldingPeriod(WeightedFrom(takes, 1, tokenDecimals, F64Zero),
                     SumSeq([ k \in DOMAIN takes |-> takes[k].units ]),
                     tokenDecimals)

\* the locals before the loop; tokenDecimals from the pricing service
HoldingStart(tokenAddress) ==
    /\ holding = NoHolding
    /\ holding' = [ pc                    |-> "loop",
                    tokenDecimals         |-> PricingTokenDecimals(tokenAddress),
                    takes                 |-> << >>,
                    weightedHoldingPeriod |-> F64Zero,
                    totalDisposed         |-> 0 ]
    /\ UNCHANGED <<costLots, disposedUnits, lastOp, gain, run, jobs, requests,
                   started, classified, conv, totals, reports, priceCache,
                   apiCalls, resolves, holdings, pipeline>>

\* one pass of the loop body: the lots come oldest first, so the days held
\* do not grow from one pass to the next
HoldingTake(holdingDays, units) ==
    /\ holding.pc = "loop"
    /\ Len(holding.takes) < MaxLots
    /\ \A k \in DOMAIN holding.takes : holdingDays <= holding.takes[k].holdingDays
    /\ holding' = [ holding EXCEPT
                      !.takes = Append(@, [ holdingDays |-> holdingDays,
                                            units       |-> units ]),
                      !.weightedHoldingPeriod =
                          AddWeighted(@, holdingDays, units, holding.tokenDecimals),
                      !.totalDisposed = @ + units ]
    /\ UNCHANGED <<costLots, disposedUnits, lastOp, gain, run, jobs, requests,
                   started, classified, conv, totals, reports, priceCache,
                   apiCalls, resolves, holdings, pipeline>>

\* the statements after the loop
HoldingReturn ==
    /\ holding.pc = "loop"
    /\ holding' = [ pc            |-> "returned",
                    tokenDecimals |-> holding.tokenDecimals,
                    takes         |-> holding.takes,
                    totalDisposed |-> holding.totalDisposed,
                    holdingPeriod |-> avgHoldingPeriod(holding.weightedHoldingPeriod,
                                          holding.totalDisposed,
                                          holding.tokenDecimals) ]
    /\ UNCHANGED <<costLots, disposedUnits, lastOp, gain, run, jobs, requests,
                   started, classified, conv, totals, reports, priceCache,
                   apiCalls, resolves, holdings, pipeline>>

NextHolding ==
    \/ \E t \in HoldingTokens : HoldingStart(t)
    \/ \E days \in HeldDays, u \in TakenUnits : HoldingTake(days, u)
    \/ HoldingReturn

SpecHolding == Init /\ [][NextHolding]_vars

\* the sum over the takes of holdingDays * units, in exact arithmetic
ExactWeighted(takes) ==
    SumSeq([ k \in DOMAIN takes |-> takes[k].holdingDays * takes[k].units ])

\* C12: the holding period a disposal returns is the floor of the sum over
\* the consumed lots of holdingDays * unitsTaken divided by the units taken
\* in total, and 0 when no units were taken.
C12_HoldingPeriod ==
    holding.pc = "returned" =>
      holding.holdingPeriod =
        IF holding.totalDisposed = 0 THEN 0
        ELSE ExactWeighted(holding.takes) \div holding.totalDisposed

----------------------------------------------------------------------------
(* calculateUnrealizedGains.  The answer of pricing.getPriceAtTime for a    *)
(* token at the current time is an input: a price, the fallback result     *)
(* { priceUsd: '0', source: 'fallback' } when the fetch failed, or a       *)
(* rejection (the cache lookup failed).  Prices are USD per raw unit.      *)

CurrentPrice == 1500

Quotes == { [ kind |-> "price", priceUsd |-> CurrentPrice ],
            [ kind |-> "fallback", priceUsd |-> 0 ],
            [ kind |-> "throws", priceUsd |-> NULL ] }

\* costBasis * remainingRatio, in 1/10000 USD
RemainingCostBasis(lot) ==
    lot.costBasisUsd * ((lot.remainingAmount * RatioScale) \div lot.amount)

\* currentValue - proportionalCostBasis of one lot, in 1/10000 USD
UnrealizedGainOfLot(lot, currentPrice) ==
    lot.remainingAmount * currentPrice * RatioScale - RemainingCostBasis(lot)

\* the lots of the tokens whose price lookup returned
PricedLots(table, address, quotes) ==
    { i \in DOMAIN table :
        /\ LotIsOpen(table[i], address, table[i].tokenAddress)
        /\ quotes[table[i].tokenAddress].kind # "throws" }

\* totalUnrealizedGain, in 1/10000 USD
calculateUnrealizedGains(table, address, quotes) ==
    LET gains == [ i \in DOMAIN table |->
                     [ gain |-> UnrealizedGainOfLot(table[i],
                                    quotes[table[i].tokenAddress].priceUsd) ] ]
    IN  SumOver(gains, PricedLots(table, address, quotes), "gain")

----------------------------------------------------------------------------
(* One calculateTaxes call for a job of address a1, from its first event to *)
(* the saved report.  USD amounts of the events are whole dollars here and *)
(* the gains 1/10000 USD; the rates are twentieths.  Raw amount 2 is one   *)
(* token unit of the example of the README.                               *)

MaxEvents == 3

\* the rates 0.30, 0.30 and 0.15 in twentieths
RateScale == 20
ORDINARY_INCOME_TAX_RATE == 6
SHORT_TERM_CG_RATE == 6
LONG_TERM_CG_RATE == 3

TaxAddress == "a1"

TaxEventOf(day, category, tokenIn, tokenInAmount, tokenInUsd, tokenOut, tokenOutAmount, gasFeeUsd) ==
    [ timestamp      |-> day * TicksPerDay,
      category       |-> category,
      tokenIn        |-> tokenIn,
      tokenInAmount  |-> tokenInAmount,
      tokenInUsd     |-> tokenInUsd,
      tokenOut       |-> tokenOut,
      tokenOutAmount |-> tokenOutAmount,
      tokenOutUsd    |-> NULL,
      gasFeeUsd      |-> gasFeeUsd ]

\* airdrops of T1 on days 0, 1 and 31, one of them worth nothing, and a
\* staking reward that pricing left without USD
TaxIncomeEvents ==
    { TaxEventOf(0, "AIRDROP", "T1", 2, 2000, NoToken, NULL, NULL),
      TaxEventOf(1, "AIRDROP", "T1", 2, 2000, NoToken, NULL, NULL),
      TaxEventOf(31, "AIRDROP", "T1", 2, 2500, NoToken, NULL, NULL),
      TaxEventOf(0, "AIRDROP", "T1", 3, 2000, NoToken, NULL, NULL),
      TaxEventOf(0, "AIRDROP", "T1", 3, 0, NoToken, NULL, NULL),
      TaxEventOf(0, "STAKING", "T1", 2, NULL, NoToken, NULL, NULL) }

\* disposals of T1 on days 0, 60 and 365: for nothing, or for one unit of
\* T2 worth 4500 USD, with and without a gas fee; one without tokenOut; one
\* for a unit of T2 that pricing left without USD; and one that has only
\* the unit of T2 received
TaxDisposalEvents ==
    { TaxEventOf(day, "DISPOSAL", NoToken, NULL, NULL, "T1", 3, NULL) :
        day \in {0, 60, 365} }
    \cup { TaxEventOf(day, "DISPOSAL", "T2", 1, 4500, "T1", 3, NULL) :
             day \in {60, 365} }
    \cup { TaxEventOf(60, "DISPOSAL", "T2", 1, 4500, "T1", 3, 10),
           TaxEventOf(365, "DISPOSAL", NoToken, NULL, NULL, "T1", 2, NULL),
           TaxEventOf(60, "DISPOSAL", NoToken, NULL, NULL, NoToken, NULL, 10),
           TaxEventOf(60, "DISPOSAL", "T2", 1, NULL, "T1", 3, NULL),
           TaxEventOf(60, "DISPOSAL", "T2", 1, 4500, NoToken, NULL, NULL) }

TaxNonTaxableEvents ==
    { TaxEventOf(60, "TRANSFER", "T1", 2, 2000, NoToken, NULL, NULL),
      TaxEventOf(0, "DEDUCTION", NoToken, NULL, NULL, NoToken, NULL, 10) }

\* n.toFixed(2) of a number given in 1/scale cent: the nearest number of
\* cents; where the two nearest are equally near, the double that stands for
\* the number decides between them
ToFixed2(n, scale) ==
    { c \in { n \div scale, (n \div scale) + 1 } :
        /\ 2 * (c * scale - n) <= scale
        /\ 2 * (n - c * scale) <= scale }

\* the rows of job.taxEvents come ordered by timestamp; row k of the job has
\* txHash k
NextEvent(event) ==
    /\ totals.pc = "loop"
    /\ Len(totals.events) < MaxEvents
    /\ \A k \in DOMAIN totals.events :
         totals.events[k].event.timestamp <= event.timestamp

\* totalGasFee after the first statement of the loop body
GasAdded(event) ==
    totals.totalGasFee + (IF Truthy(event.gasFeeUsd) THEN event.gasFeeUsd ELSE 0)

\* history: the event handled, what calculateDisposalGain returned, the data
\* written back to the row, and whether lots ran out
Handled(event, result, recorded, underflow) ==
    [ event |-> event, gain |-> result, recorded |-> recorded,
      underflow |-> underflow ]

NoRecord == [ costBasis |-> NULL ]

StartTaxes ==
    /\ totals = NoTotals
    /\ totals' = [ pc |-> "loop", ordinaryIncome |-> 0, shortTermGain |-> 0,
                   longTermGain |-> 0, totalGasFee |-> 0, events |-> << >> ]
    /\ UNCHANGED <<costLots, disposedUnits, lastOp, gain, run, jobs, requests,
                   started, classified, conv, reports, priceCache, apiCalls, resolves,
                   holdings, holding, pipeline>>

\* case AIRDROP, case STAKING
TaxIncome(event) ==
    /\ NextEvent(event)
    /\ event.category \in {"AIRDROP", "STAKING"}
    /\ LET e == event @@ [ txHash |-> Len(totals.events) + 1 ]
       IN  /\ IF Truthy(e.tokenInUsd)
              THEN costLots' = createCostLot(costLots, TaxAddress, e.tokenIn,
                                   e.timestamp, e.txHash, e.tokenInAmount,
                                   e.tokenInUsd)
              ELSE costLots' = costLots
           /\ totals' = [ totals EXCEPT
                            !.totalGasFee = GasAdded(e),
                            !.ordinaryIncome =
                                IF Truthy(e.tokenInUsd) THEN @ + e.tokenInUsd ELSE @,
                            !.events = Append(@, Handled(e, NoGain, NoRecord, FALSE)) ]
    /\ UNCHANGED <<disposedUnits, lastOp, gain, run, jobs, requests, started,
                   classified, conv, reports, priceCache, apiCalls, resolves, holdings,
                   holding, pipeline>>

\* the takes of a disposal with the days each lot was held
TakesOf(table, parts, event) ==
    [ k \in DOMAIN parts |->
        [ holdingDays |-> HoldingDays(event, table[parts[k].lot]),
          units       |-> parts[k].units ] ]

\* what calculateDisposalGain returns, the holding period as the doubles
\* give it
DisposalGain(table, acc, event) ==
    [ DisposalResult(acc, event) EXCEPT
        !.holdingPeriod = HoldingPeriodOf(TakesOf(table, acc.parts, event),
                              PricingTokenDecimals(event.tokenOut)) ]

\* the short-term total after a gain: everything under 365 days
ShortTermAfter(shortTermGain, result) ==
    IF result.holdingPeriod >= LONG_TERM_DAYS THEN shortTermGain
    ELSE shortTermGain + result.realizedGain

LongTermAfter(longTermGain, result) ==
    IF result.holdingPeriod >= LONG_TERM_DAYS THEN longTermGain + result.realizedGain
    ELSE longTermGain

\* the data of the taxEvent.update, USD in cents
Recorded(result, cost, realized) ==
    [ costBasis     |-> cost,
      proceeds      |-> result.proceeds * 100,
      realizedGain  |-> realized,
      holdingPeriod |-> result.holdingPeriod ]

\* the totals after a disposal that returned result
TotalsAfterGain(e, result, recorded, underflow) ==
    [ totals EXCEPT
        !.totalGasFee = GasAdded(e),
        !.shortTermGain = ShortTermAfter(@, result),
        !.longTermGain = LongTermAfter(@, result),
        !.events = Append(@, Handled(e, result, recorded, underflow)) ]

\* the rest of case DISPOSAL once calculateDisposalGain returned result and
\* left table
DisposalHandled(e, table, result, underflow) ==
    /\ \E cost \in ToFixed2(result.costBasis, RatioScale \div 100),
          realized \in ToFixed2(result.realizedGain, RatioScale \div 100) :
         totals' = TotalsAfterGain(e, result, Recorded(result, cost, realized),
                                   underflow)
    /\ IF Truthy(e.tokenInUsd) /\ IsToken(e.tokenIn)
       THEN costLots' = createCostLot(table, TaxAddress, e.tokenIn, e.timestamp,
                            e.txHash, e.tokenInAmount, e.tokenInUsd)
       ELSE costLots' = table

\* calculateDisposalGain on the snapshot rows lots, then the rest of the case
DisposalOf(e, lots, done) ==
    DisposalHandled(e, done.table, DisposalGain(costLots, done.acc, e),
                    done.acc.remainingToDispose > 0)

\* case DISPOSAL
TaxDisposal(event) ==
    /\ NextEvent(event)
    /\ event.category = "DISPOSAL"
    /\ LET e == event @@ [ txHash |-> Len(totals.events) + 1 ]
       IN  IF ~HasTokenOut(e)
           THEN /\ totals' = [ totals EXCEPT
                                 !.totalGasFee = GasAdded(e),
                                 !.events = Append(@, Handled(e, NoGain, NoRecord, FALSE)) ]
                /\ costLots' = costLots
           ELSE \E lots \in FifoSnapshots(costLots, TaxAddress, e.tokenOut) :
                  DisposalOf(e, lots,
                             ConsumeAll(costLots, StartDisposal(e), lots, 1, e))
    /\ UNCHANGED <<disposedUnits, lastOp, gain, run, jobs, requests, started,
                   classified, conv, reports, priceCache, apiCalls, resolves, holdings,
                   holding, pipeline>>

\* case TRANSFER, case DEDUCTION when a received token is entered as a lot
TaxNonTaxableAcquiring(event) ==
    /\ NextEvent(event)
    /\ event.category \in {"TRANSFER", "DEDUCTION"}
    /\ LET e == event @@ [ txHash |-> Len(totals.events) + 1 ]
       IN  /\ totals' = [ totals EXCEPT
                            !.totalGasFee = GasAdded(e),
                            !.events = Append(@, Handled(e, NoGain, NoRecord, FALSE)) ]
           /\ IF Truthy(e.tokenInUsd) /\ IsToken(e.tokenIn)
              THEN costLots' = createCostLot(costLots, TaxAddress, e.tokenIn,
                                   e.timestamp, e.txHash, e.tokenInAmount,
                                   e.tokenInUsd)
              ELSE costLots' = costLots
    /\ UNCHANGED <<disposedUnits, lastOp, gain, run, jobs, requests,
                   started, classified, conv, reports, priceCache, apiCalls, resolves,
                   holdings, holding, pipeline>>

\* case TRANSFER, case DEDUCTION
TaxNonTaxable(event) ==
    /\ NextEvent(event)
    /\ event.category \in {"TRANSFER", "DEDUCTION"}
    /\ LET e == event @@ [ txHash |-> Len(totals.events) + 1 ]
       IN  totals' = [ totals EXCEPT
                         !.totalGasFee = GasAdded(e),
                         !.events = Append(@, Handled(e, NoGain, NoRecord, FALSE)) ]
    /\ UNCHANGED <<costLots, disposedUnits, lastOp, gain, run, jobs, requests,
                   started, classified, conv, reports, priceCache, apiCalls, resolves,
                   holdings, holding, pipeline>>

\* the long-term gains taxed at the short-term rate
EstimatedTaxDueFlat(ordinaryIncome, shortTermGain, longTermGain) ==
    ordinaryIncome * RatioScale * ORDINARY_INCOME_TAX_RATE
      + shortTermGain * SHORT_TERM_CG_RATE
      + longTermGain * SHORT_TERM_CG_RATE

\* estimatedTaxDue, in 1/(10000 * 20) USD
EstimatedTaxDue(ordinaryIncome, shortTermGain, longTermGain) ==
    ordinaryIncome * RatioScale * ORDINARY_INCOME_TAX_RATE
      + shortTermGain * SHORT_TERM_CG_RATE
      + longTermGain * LONG_TERM_CG_RATE

\* the statements after the loop: the report row, its USD columns in cents
SaveReport(quotes) ==
    /\ totals.pc = "loop"
    /\ LET unrealizedGain == calculateUnrealizedGains(costLots, TaxAddress, quotes)
           estimatedTaxDue == EstimatedTaxDue(totals.ordinaryIncome,
                                  totals.shortTermGain, totals.longTermGain)
       IN  \E realized \in ToFixed2(totals.shortTermGain + totals.longTermGain,
                                   RatioScale \div 100),
              unrealized \in ToFixed2(unrealizedGain, RatioScale \div 100),
              short \in ToFixed2(totals.shortTermGain, RatioScale \div 100),
              long \in ToFixed2(totals.longTermGain, RatioScale \div 100),
              due \in ToFixed2(estimatedTaxDue, (RatioScale * RateScale) \div 100) :
             reports' = Append(reports,
                 [ ordinaryIncomeUsd        |-> totals.ordinaryIncome * 100,
                   capitalGainRealizedUsd   |-> realized,
                   capitalGainUnrealizedUsd |-> unrealized,
                   shortTermGainUsd         |-> short,
                   longTermGainUsd          |-> long,
                   totalGasFeeUsd           |-> totals.totalGasFee * 100,
                   estimatedTaxDue          |-> due,
                   ordinaryIncomeTaxRate    |-> ORDINARY_INCOME_TAX_RATE,
                   shortTermCgRate          |-> SHORT_TERM_CG_RATE,
                   longTermCgRate           |-> LONG_TERM_CG_RATE ])
    /\ totals' = [ totals EXCEPT !.pc = "done" ]
    /\ UNCHANGED <<costLots, disposedUnits, lastOp, gain, run, jobs, requests,
                   started, classified, conv, priceCache, apiCalls, resolves, holdings,
                   holding, pipeline>>

NextTax ==
    \/ StartTaxes
    \/ \E e \in TaxIncomeEvents : TaxIncome(e)
    \/ \E e \in TaxDisposalEvents : TaxDisposal(e)
    \/ \E e \in TaxNonTaxableEvents : TaxNonTaxable(e)
    \/ \E quotes \in [ Tokens -> Quotes ] : SaveReport(quotes)

SpecTax == Init /\ [][NextTax]_vars

----------------------------------------------------------------------------
(* Properties of a calculateTaxes call under SpecTax *)

\* the passes of the loop in which calculateDisposalGain returned a result
GainsHandled ==
    { k \in DOMAIN totals.events : ~totals.events[k].gain.isNull }

\* a column holding a decimal number, as the number parseFloat(x || '0') gives
NumberOr0(v) == IF v = NULL THEN 0 ELSE v

\* the realized gains of the handled disposals whose holding period is in
\* the long-term range (long = TRUE) or under it, added up from the log
RECURSIVE RealizedOfTerm(_, _, _)
RealizedOfTerm(log, k, long) ==
    IF k > Len(log) THEN 0
    ELSE (IF /\ ~log[k].gain.isNull
             /\ (log[k].gain.holdingPeriod >= LONG_TERM_DAYS) = long
          THEN log[k].gain.realizedGain ELSE 0)
         + RealizedOfTerm(log, k + 1, long)

\* the tokenInUsd of the AIRDROP and STAKING events of the log that have one
RECURSIVE IncomeOf(_, _)
IncomeOf(log, k) ==
    IF k > Len(log) THEN 0
    ELSE (IF /\ log[k].event.category \in {"AIRDROP", "STAKING"}
             /\ log[k].event.tokenInUsd # NULL
          THEN log[k].event.tokenInUsd ELSE 0)
         + IncomeOf(log, k + 1)

\* the example of the README: one unit (2 raw) bought for 2000 USD on day 0,
\* one for 2500 USD on day 31, 1.5 units sold for 4500 USD on day 60, no gas
IsFifoExample ==
    /\ totals.pc # "idle"
    /\ Len(totals.events) = 3
    /\ totals.events[1].event
         = TaxEventOf(0, "AIRDROP", "T1", 2, 2000, NoToken, NULL, NULL)
             @@ [ txHash |-> 1 ]
    /\ totals.events[2].event
         = TaxEventOf(31, "AIRDROP", "T1", 2, 2500, NoToken, NULL, NULL)
             @@ [ txHash |-> 2 ]
    /\ totals.events[3].event
         = TaxEventOf(60, "DISPOSAL", "T2", 1, 4500, "T1", 3, NULL)
             @@ [ txHash |-> 3 ]

\* C11: every disposal that returns a result returns proceeds = the USD value
\* of the token received minus the gas fee, a cost basis that is the sum of
\* the contributions of the lots, and realizedGain = proceeds - cost basis;
\* in the example the cost basis is 3250 USD and the realized gain 1250 USD.
C11_Proceeds ==
    totals.pc # "idle" =>
      /\ \A k \in GainsHandled :
           LET e == totals.events[k].event
               g == totals.events[k].gain
           IN  /\ g.proceeds = NumberOr0(e.tokenInUsd) - NumberOr0(e.gasFeeUsd)
               /\ g.costBasis = SumSeq([ p \in DOMAIN g.parts |-> g.parts[p].cost ])
               /\ g.realizedGain = g.proceeds * RatioScale - g.costBasis
      /\ IsFifoExample =>
           /\ totals.events[3].gain.costBasis = 3250 * RatioScale
           /\ totals.events[3].gain.realizedGain = 1250 * RatioScale

\* the example has been handled, the disposal served by both lots
C11_Witness ==
    /\ IsFifoExample
    /\ Len(totals.events[3].gain.parts) = 2
    /\ totals.events[3].gain.proceeds = 4500

\* the days between the acquisition of the lot of a take and the disposal
DaysHeld(h, p) ==
    h.event.timestamp - costLots[h.gain.parts[p].lot].acquiredDate

\* C13: the realized gain of a disposal goes to the long-term total exactly
\* when the returned holding period is 365 or more and to the short-term
\* total otherwise; a disposal of lots acquired exactly 365 days earlier is
\* long-term, one of lots acquired 364 days earlier is short-term.
C13_TermSplit ==
    totals.pc # "idle" =>
      /\ totals.longTermGain = RealizedOfTerm(totals.events, 1, TRUE)
      /\ totals.shortTermGain = RealizedOfTerm(totals.events, 1, FALSE)
      /\ \A k \in GainsHandled :
           LET h == totals.events[k]
           IN  /\ ( /\ h.gain.parts # << >>
                    /\ \A p \in DOMAIN h.gain.parts :
                         DaysHeld(h, p) = 365 * TicksPerDay )
                  => h.gain.holdingPeriod >= LONG_TERM_DAYS
               /\ ( /\ h.gain.parts # << >>
                    /\ \A p \in DOMAIN h.gain.parts :
                         DaysHeld(h, p) = 364 * TicksPerDay )
                  => h.gain.holdingPeriod < LONG_TERM_DAYS

\* C18: the estimatedTaxDue of the report is ordinaryIncome * ordinaryRate +
\* shortTermGain * shortTermRate + longTermGain * longTermRate, in cents,
\* with the rates stored in the report, which are 0.30, 0.30 and 0.15, and
\* its capitalGainRealizedUsd is shortTermGain + longTermGain, the three
\* totals being those of the events handled.
C18_TaxDue ==
    \A r \in DOMAIN reports :
       LET row == reports[r]
           ordinaryIncome == IncomeOf(totals.events, 1)
           shortTermGain  == RealizedOfTerm(totals.events, 1, FALSE)
           longTermGain   == RealizedOfTerm(totals.events, 1, TRUE)
       IN  /\ row.estimatedTaxDue \in
                ToFixed2(ordinaryIncome * RatioScale * row.ordinaryIncomeTaxRate
                           + shortTermGain * row.shortTermCgRate
                           + longTermGain * row.longTermCgRate,
                         (RatioScale * RateScale) \div 100)
           /\ row.capitalGainRealizedUsd \in
                ToFixed2(shortTermGain + longTermGain, RatioScale \div 100)
           /\ row.ordinaryIncomeTaxRate * 100 = 30 * RateScale
           /\ row.shortTermCgRate * 100 = 30 * RateScale
           /\ row.longTermCgRate * 100 = 15 * RateScale

\* a report over income, a short-term gain and a long-term loss
C18_Witness ==
    /\ reports # << >>
    /\ totals.ordinaryIncome > 0
    /\ totals.shortTermGain > 0
    /\ totals.longTermGain < 0
    /\ reports[1].estimatedTaxDue > 0

\* what the caller and the TaxEvent row get of a disposal
Visible(h) ==
    [ costBasis     |-> h.gain.costBasis,
      proceeds      |-> h.gain.proceeds,
      realizedGain  |-> h.gain.realizedGain,
      holdingPeriod |-> h.gain.holdingPeriod,
      recorded      |-> h.recorded ]

\* C19: a disposal whose amount the lots did not cover is told apart from a
\* covered one by what it returns or records.
C19_UnderflowFlagged ==
    totals.pc # "idle" =>
      \A j, k \in GainsHandled :
         ( totals.events[j].underflow /\ ~totals.events[k].underflow )
         => Visible(totals.events[j]) # Visible(totals.events[k])

----------------------------------------------------------------------------
(* processReport: the stages of a job.  createReport starts it on the row   *)
(* it created; every stage is one awaited call that handles its items one  *)
(* after the other and writes the stage again with the progress of each.   *)

MaxItems == 2

\* the requests that create the jobs of this specification
PipelineRequests == {1, 2}

ItemStages == {"FETCHING_TX", "CLASSIFYING", "PRICING", "CALCULATING"}

StageRank(stage) ==
    CASE stage = "PENDING"     -> 0
      [] stage = "FETCHING_TX" -> 1
      [] stage = "CLASSIFYING" -> 2
      [] stage = "PRICING"     -> 3
      [] stage = "CALCULATING" -> 4
      [] stage = "DONE"        -> 5
      [] OTHER                 -> 6

\* a progress update that writes the stage of the service that ran before
ItemStagePrevious(pc) ==
    CASE pc = "CLASSIFYING" -> "FETCHING_TX"
      [] pc = "PRICING"     -> "CLASSIFYING"
      [] pc = "CALCULATING" -> "PRICING"
      [] OTHER              -> pc

\* the stage the progress update of an item writes: the indexer writes
\* FETCHING_TX, the classifier CLASSIFYING, the pricer PRICING, the tax engine
\* CALCULATING
ItemStage(pc) == pc

\* the progress after item i of n: the tax engine counts from 0
ProgressPct(pc, i, n) ==
    IF pc = "CALCULATING" THEN ((i - 1) * 100) \div n ELSE (i * 100) \div n

\* prisma.job.update({ data: { stage, progressPct: 0 } }), then the call of
\* the service of the stage, which finds n items
EnterStage(j, stage, n) ==
    /\ jobs' = [ jobs EXCEPT ![j].stage = stage, ![j].progressPct = 0 ]
    /\ pipeline' = [ pipeline EXCEPT ![j] =
                       [ pc |-> stage, left |-> n, total |-> n,
                         handled |-> pipeline[j].handled ] ]
    /\ UNCHANGED <<costLots, disposedUnits, lastOp, gain, run, requests, started,
                   classified, conv, totals, reports, priceCache, apiCalls, resolves,
                   holdings, holding>>

\* the service of the current stage has returned
StageReturned(j, stage) ==
    /\ j \in DOMAIN jobs
    /\ pipeline[j].pc = stage
    /\ pipeline[j].left = 0

\* Stage 1
BeginFetching(j, n) ==
    /\ j \in DOMAIN jobs
    /\ pipeline[j].pc = "none"
    /\ EnterStage(j, "FETCHING_TX", n)

\* Stage 2
BeginClassifying(j, n) ==
    /\ StageReturned(j, "FETCHING_TX")
    /\ EnterStage(j, "CLASSIFYING", n)

\* Stage 3
BeginPricing(j, n) ==
    /\ StageReturned(j, "CLASSIFYING")
    /\ EnterStage(j, "PRICING", n)

\* Stage 4
BeginCalculating(j, n) ==
    /\ StageReturned(j, "PRICING")
    /\ EnterStage(j, "CALCULATING", n)

\* one item of the running stage, with its progress update
ItemHandled(j) ==
    /\ j \in DOMAIN jobs
    /\ pipeline[j].pc \in ItemStages
    /\ pipeline[j].left > 0
    /\ jobs' = [ jobs EXCEPT
                   ![j].stage = ItemStage(pipeline[j].pc),
                   ![j].progressPct =
                       ProgressPct(pipeline[j].pc,
                                   pipeline[j].total - pipeline[j].left + 1,
                                   pipeline[j].total) ]
    /\ pipeline' = [ pipeline EXCEPT ![j].left = @ - 1, ![j].handled = @ + 1 ]
    /\ UNCHANGED <<costLots, disposedUnits, lastOp, gain, run, requests, started,
                   classified, conv, totals, reports, priceCache, apiCalls, resolves,
                   holdings, holding>>

\* the catch inside the loop writes ERROR on the job before the loop goes on
ItemFailedWritingError(j) ==
    /\ j \in DOMAIN jobs
    /\ pipeline[j].pc \in {"CLASSIFYING", "PRICING", "CALCULATING"}
    /\ pipeline[j].left > 0
    /\ jobs' = [ jobs EXCEPT ![j].stage = "ERROR" ]
    /\ pipeline' = [ pipeline EXCEPT ![j].left = @ - 1 ]
    /\ UNCHANGED <<costLots, disposedUnits, lastOp, gain, run, requests, started,
                   classified, conv, totals, reports, priceCache, apiCalls, resolves,
                   holdings, holding>>

\* one item of the classifier, the pricer or the tax engine fails: the catch
\* inside the loop logs the error and the loop goes on without an update
ItemFailed(j) ==
    /\ j \in DOMAIN jobs
    /\ pipeline[j].pc \in {"CLASSIFYING", "PRICING", "CALCULATING"}
    /\ pipeline[j].left > 0
    /\ pipeline' = [ pipeline EXCEPT ![j].left = @ - 1 ]
    /\ UNCHANGED <<costLots, disposedUnits, lastOp, gain, run, jobs, requests,
                   started, classified, conv, totals, reports, priceCache,
                   apiCalls, resolves, holdings, holding>>

\* Stage 5: generateStrategies, which writes no stage
GenerateStrategies(j) ==
    /\ StageReturned(j, "CALCULATING")
    /\ pipeline' = [ pipeline EXCEPT ![j].pc = "ADVISING" ]
    /\ UNCHANGED <<costLots, disposedUnits, lastOp, gain, run, jobs, requests,
                   started, classified, conv, totals, reports, priceCache,
                   apiCalls, resolves, holdings, holding>>

\* Done
FinishReport(j) ==
    /\ j \in DOMAIN jobs
    /\ pipeline[j].pc = "ADVISING"
    /\ jobs' = [ jobs EXCEPT ![j].stage = "DONE", ![j].progressPct = 100 ]
    /\ pipeline' = [ pipeline EXCEPT ![j].pc = "DONE" ]
    /\ UNCHANGED <<costLots, disposedUnits, lastOp, gain, run, requests, started,
                   classified, conv, totals, reports, priceCache, apiCalls, resolves,
                   holdings, holding>>

\* an awaited call inside the try block rejects: the catch writes ERROR and
\* rethrows
StageThrows(j) ==
    /\ j \in DOMAIN jobs
    /\ pipeline[j].pc \in ItemStages \cup {"ADVISING"}
    /\ jobs' = [ jobs EXCEPT ![j].stage = "ERROR" ]
    /\ pipeline' = [ pipeline EXCEPT ![j].pc = "ERROR" ]
    /\ UNCHANGED <<costLots, disposedUnits, lastOp, gain, run, requests, started,
                   classified, conv, totals, reports, priceCache, apiCalls, resolves,
                   holdings, holding>>

NextPipeline ==
    \/ \E r \in PipelineRequests : \E dto \in ReportDtos : FindExisting(r, dto)
    \/ \E r \in PipelineRequests : CreateJob(r)
    \/ \E j \in RequestIds, n \in 0..MaxItems : BeginFetching(j, n)
    \/ \E j \in RequestIds, n \in 0..MaxItems : BeginClassifying(j, n)
    \/ \E j \in RequestIds, n \in 0..MaxItems : BeginPricing(j, n)
    \/ \E j \in RequestIds, n \in 0..MaxItems : BeginCalculating(j, n)
    \/ \E j \in RequestIds : ItemHandled(j)
    \/ \E j \in RequestIds : ItemFailed(j)
    \/ \E j \in RequestIds : GenerateStrategies(j)
    \/ \E j \in RequestIds : FinishReport(j)
    \/ \E j \in RequestIds : StageThrows(j)

SpecPipeline == Init /\ [][NextPipeline]_vars

\* C14: the stage of a job only moves one step forward along PENDING,
\* FETCHING_TX, CLASSIFYING, PRICING, CALCULATING, DONE, or into ERROR, never
\* back and never out of ERROR, and it moves forward only when the service of
\* the stage before has no item left.
C14_StageOrder ==
    [][ \A j \in DOMAIN jobs :
          jobs'[j].stage # jobs[j].stage =>
            \/ jobs'[j].stage = "ERROR"
            \/ /\ jobs[j].stage # "ERROR"
               /\ StageRank(jobs'[j].stage) = StageRank(jobs[j].stage) + 1
               /\ pipeline[j].left = 0 ]_vars

\* a job that went through every stage with items to DONE while another job
\* is still pricing
C14_Witness ==
    \E j, k \in DOMAIN jobs :
        /\ jobs[j].stage = "DONE"
        /\ pipeline[j].handled >= 4
        /\ jobs[k].stage = "PRICING"
        /\ pipeline[k].left > 0


\* ---------------------------------------------------------------------
\* Calls to the contracts of the protocol registry
\* ---------------------------------------------------------------------

\* the Transfer logs of a protocol call: one unit of either token between
\* the user and the pool
ProtocolLogs == { t \in TransferLogs : t.amount = 1 /\ t.from # ZeroAddress }

\* a transaction to any registry contract, to another contract or without a
\* recipient, with any registry selector, another selector or none
ProtocolTransactions ==
    [ from : {User},
      to : RegistryContracts \cup {OtherContract, NoAddress},
      methodSelector : RegistrySelectors \cup {OtherSelector, NoSelector},
      value : {0, 1}, gasUsed : {1}, gasPrice : {1},
      logs : SeqsUpTo(ProtocolLogs, 1) ]

InitProtocol ==
    /\ InitLedger
    /\ InitReports
    /\ InitLater
    /\ \E tx \in ProtocolTransactions : classified = [ tx |-> tx, events |-> << >> ]
    /\ conv = NoConv

SpecProtocol == InitProtocol /\ [][NextClassify]_vars

\* the method-category -> tax-category table
MethodCategoryTable ==
    [ SWAP |-> "DISPOSAL", STAKE |-> "STAKING", DEPOSIT |-> "DISPOSAL",
      WITHDRAW |-> "TRANSFER", CLAIM |-> "TRANSFER", BORROW |-> "TRANSFER",
      REPAY |-> "DISPOSAL" ]

\* the transaction is a call of a known method of a registry contract
IsKnownCall(tx) ==
    /\ tx.to \in RegistryContracts
    /\ tx.methodSelector \in DOMAIN PROTOCOLS[CONTRACT_TO_PROTOCOL(tx.to)].methods

DAI == "0x6b175474e89094c44da98b954eedeac495271d0f"
FRAX == "0x853d955acef822db058eb8505911ed77f175b99e"
USDbC == "0xd9aaec86b65d86f6a7b5b1b0c42ffa531710b6ca"

STABLECOINS == {USDC, USDT, DAI, BUSD, FRAX, USDbC}

\* the native asset, priced as WETH
NativeEth == "eth"

\* the tokens resolved, the timestamps asked for (in minutes) and the prices
\* the API may answer (in cents)
ResolvedTokens == {NativeEth, WETH, WBTC, USDC}
ResolveTimes == {0, 5, 6, 11}
ApiPrices == {150000, 160000}
MaxCalls == 2

\* the tolerance of the cache lookup, in minutes, on either side
CacheWindowMinutes == 5

PriceResult(priceUsd, source) == [ priceUsd |-> priceUsd, source |-> source ]

\* the cache rows a lookup at exactly the row's timestamp would match
getCachedPriceExact(table, tokenAddress, timestamp) ==
    { i \in DOMAIN table :
         /\ table[i].tokenAddress = tokenAddress
         /\ table[i].timestamp = timestamp }

\* the rows findFirst may return: the rows of the token inside the window
\* with the latest timestamp of these
getCachedPrice(table, tokenAddress, timestamp) ==
    LET windowStart == timestamp - CacheWindowMinutes
        windowEnd   == timestamp + CacheWindowMinutes
        inWindow    == { i \in DOMAIN table :
                           /\ table[i].tokenAddress = tokenAddress
                           /\ table[i].timestamp >= windowStart
                           /\ table[i].timestamp <= windowEnd }
    IN  { i \in inWindow :
            \A k \in inWindow : table[k].timestamp <= table[i].timestamp }

\* the address a resolve works with: the native asset is priced as WETH
ResolvedAddress(tokenAddress) ==
    IF tokenAddress = NativeEth THEN WETH ELSE tokenAddress

Returned(r, token, timestamp, result) ==
    resolves' = [ resolves EXCEPT ![r] =
                    [ pc |-> "returned", token |-> token,
                      timestamp |-> timestamp, result |-> result ] ]

\* getPriceAtTime up to its first request to the API: a stablecoin is 1.00,
\* a cached row inside the window is returned, otherwise the API is asked
GetPriceAtTime(r, tokenAddress, timestamp) ==
    /\ resolves[r].pc \in {"idle", "returned"}
    /\ LET token == ResolvedAddress(tokenAddress)
           rows  == getCachedPrice(priceCache, token, timestamp)
       IN  IF token \in STABLECOINS
           THEN Returned(r, token, timestamp, PriceResult(100, "stable"))
           ELSE IF rows # {}
           THEN \E i \in rows :
                   Returned(r, token, timestamp,
                            PriceResult(priceCache[i].priceUsd, "cache"))
           ELSE resolves' = [ resolves EXCEPT ![r] =
                                [ pc |-> "fetching", token |-> token,
                                  timestamp |-> timestamp ] ]
    /\ UNCHANGED <<costLots, disposedUnits, lastOp, gain, run, jobs, requests,
                   started, classified, conv, totals, reports, priceCache,
                   apiCalls, holdings, holding, pipeline>>

\* a request to the price API and how it ended: "ok" with a price, or
\* "failed" (the fetch rejected, the status was not ok, the body was not
\* JSON, or it had no data for the coin)
ApiRequest(r, outcome) ==
    [ token |-> resolves[r].token, timestamp |-> resolves[r].timestamp,
      outcome |-> outcome ]

\* fetchFromDefiLlama returns a price
FetchReturns(r, price) ==
    /\ resolves[r].pc = "fetching"
    /\ Len(apiCalls) < MaxCalls
    /\ apiCalls' = Append(apiCalls, ApiRequest(r, "ok"))
    /\ resolves' = [ resolves EXCEPT ![r] =
                       [ pc |-> "caching", token |-> resolves[r].token,
                         timestamp |-> resolves[r].timestamp,
                         result |-> PriceResult(price, "defillama") ] ]
    /\ UNCHANGED <<costLots, disposedUnits, lastOp, gain, run, jobs, requests,
                   started, classified, conv, totals, reports, priceCache,
                   holdings, holding, pipeline>>

\* a failed fetch whose catch also stores the price 0 it returns
FetchThrowsCaching(r) ==
    /\ resolves[r].pc = "fetching"
    /\ Len(apiCalls) < MaxCalls
    /\ apiCalls' = Append(apiCalls, ApiRequest(r, "failed"))
    /\ priceCache' = Append(priceCache,
                       [ tokenAddress |-> resolves[r].token,
                         timestamp    |-> resolves[r].timestamp,
                         priceUsd     |-> 0,
                         source       |-> "fallback" ])
    /\ Returned(r, resolves[r].token, resolves[r].timestamp,
                PriceResult(0, "fallback"))
    /\ UNCHANGED <<costLots, disposedUnits, lastOp, gain, run, jobs, requests,
                   started, classified, conv, totals, reports,
                   holdings, holding, pipeline>>

\* fetchFromDefiLlama throws: the fallback price 0 is returned, nothing is
\* cached
FetchThrows(r) ==
    /\ resolves[r].pc = "fetching"
    /\ Len(apiCalls) < MaxCalls
    /\ apiCalls' = Append(apiCalls, ApiRequest(r, "failed"))
    /\ Returned(r, resolves[r].token, resolves[r].timestamp,
                PriceResult(0, "fallback"))
    /\ UNCHANGED <<costLots, disposedUnits, lastOp, gain, run, jobs, requests,
                   started, classified, conv, totals, reports, priceCache,
                   holdings, holding, pipeline>>

\* a write that replaces the row of the same token and timestamp, if any
UpsertRow(table, row) ==
    IF \E i \in DOMAIN table :
          table[i].tokenAddress = row.tokenAddress /\ table[i].timestamp = row.timestamp
    THEN [ i \in DOMAIN table |->
             IF table[i].tokenAddress = row.tokenAddress
                  /\ table[i].timestamp = row.timestamp
             THEN row ELSE table[i] ]
    ELSE Append(table, row)

\* prisma.priceCache.create
CreateRow(table, row) == Append(table, row)

\* cachePrice creates the row and the price is returned
CachePrice(r) ==
    /\ resolves[r].pc = "caching"
    /\ priceCache' = CreateRow(priceCache,
                       [ tokenAddress |-> resolves[r].token,
                         timestamp    |-> resolves[r].timestamp,
                         priceUsd     |-> resolves[r].result.priceUsd,
                         source       |-> "defillama" ])
    /\ Returned(r, resolves[r].token, resolves[r].timestamp, resolves[r].result)
    /\ UNCHANGED <<costLots, disposedUnits, lastOp, gain, run, jobs, requests,
                   started, classified, conv, totals, reports, apiCalls,
                   holdings, holding, pipeline>>

\* the create of cachePrice is rejected: the error is swallowed and the
\* price is returned
CachePriceRejected(r) ==
    /\ resolves[r].pc = "caching"
    /\ Returned(r, resolves[r].token, resolves[r].timestamp, resolves[r].result)
    /\ UNCHANGED <<costLots, disposedUnits, lastOp, gain, run, jobs, requests,
                   started, classified, conv, totals, reports, priceCache,
                   apiCalls, holdings, holding, pipeline>>

NextPrices ==
    \/ \E r \in Resolvers, tokenAddress \in ResolvedTokens, timestamp \in ResolveTimes :
          GetPriceAtTime(r, tokenAddress, timestamp)
    \/ \E r \in Resolvers, price \in ApiPrices : FetchReturns(r, price)
    \/ \E r \in Resolvers : FetchThrows(r)
    \/ \E r \in Resolvers : CachePrice(r)
    \/ \E r \in Resolvers : CachePriceRejected(r)

SpecPrices == Init /\ [][NextPrices]_vars

\* the rows of the table for the token whose timestamp is at most the
\* tolerance away from the timestamp asked for
RowsInWindow(table, token, timestamp) ==
    { i \in DOMAIN table :
         /\ table[i].tokenAddress = token
         /\ table[i].timestamp - timestamp <= CacheWindowMinutes
         /\ timestamp - table[i].timestamp <= CacheWindowMinutes }

\* caller r enters getPriceAtTime in this step
Resolving(r) ==
    /\ resolves[r].pc \in {"idle", "returned"}
    /\ resolves'[r] # resolves[r]

\* C16: a resolve that begins when the cache holds a fetched price of the
\* same token at most the tolerance away from the timestamp asked for
\* returns at once, with source cache and the price of such a row, and no
\* request is sent to the price API.
C16_CachedNoSecondCall ==
    [][ \A r \in Resolvers :
          ( Resolving(r)
              /\ RowsInWindow(priceCache, resolves'[r].token,
                              resolves'[r].timestamp) # {} ) =>
            /\ resolves'[r].pc = "returned"
            /\ resolves'[r].result.source = "cache"
            /\ \E i \in RowsInWindow(priceCache, resolves'[r].token,
                                     resolves'[r].timestamp) :
                  resolves'[r].result.priceUsd = priceCache[i].priceUsd
            /\ apiCalls' = apiCalls ]_vars

\* a price fetched for WETH at minute 0 is cached; the native asset is then
\* resolved at minute 5 from the cache, with the one request of the fetch
C16_Witness ==
    /\ Len(priceCache) = 1
    /\ priceCache[1].tokenAddress = WETH
    /\ priceCache[1].timestamp = 0
    /\ Len(apiCalls) = 1
    /\ apiCalls[1].token = WETH
    /\ apiCalls[1].timestamp = 0
    /\ \E r \in Resolvers :
          /\ resolves[r].pc = "returned"
          /\ resolves[r].timestamp = CacheWindowMinutes
          /\ resolves[r].result = PriceResult(priceCache[1].priceUsd, "cache")

\* caller r's request to the price API ends in this step
FetchEnds(r, outcome) ==
    /\ resolves[r].pc = "fetching"
    /\ resolves'[r] # resolves[r]
    /\ Len(apiCalls') = Len(apiCalls) + 1
    /\ apiCalls'[Len(apiCalls')].outcome = outcome

\* C23: when the request to the price API fails for a token that is no
\* stablecoin and has no cached row in the window, the resolve returns
\* price 0 with source fallback instead of raising, and no row is written
\* to the cache.
C23_FallbackOnFailure ==
    [][ \A r \in Resolvers :
          FetchEnds(r, "failed") =>
            /\ resolves'[r].pc = "returned"
            /\ resolves'[r].result = PriceResult(0, "fallback")
            /\ priceCache' = priceCache ]_vars

\* a failed request for WBTC left the cache empty and the caller with the
\* fallback price
C23_Witness ==
    /\ Len(apiCalls) = 1
    /\ apiCalls[1].outcome = "failed"
    /\ apiCalls[1].token = WBTC
    /\ priceCache = << >>
    /\ \E r \in Resolvers :
          /\ resolves[r].pc = "returned"
          /\ resolves[r].token = WBTC
          /\ resolves[r].result = PriceResult(0, "fallback")

\* ---------------------------------------------------------------------
\* getTokenPrice of the pricing stage, which shares the PriceCache table
\* with getPriceAtTime
\* ---------------------------------------------------------------------

\* the stablecoins of the pricing stage
PRICER_STABLECOINS == {USDT, USDC, DAI, BUSD}

\* the tolerance of the pricing stage's cache lookup, in minutes
PricerWindowMinutes == 60

\* the rows findFirst of the pricing stage may return: any row of the token
\* inside the window
PricerCachedPrice(table, tokenAddress, timestamp) ==
    { i \in DOMAIN table :
         /\ table[i].tokenAddress = tokenAddress
         /\ table[i].timestamp >= timestamp - PricerWindowMinutes
         /\ table[i].timestamp <= timestamp + PricerWindowMinutes }

\* getTokenPrice returned null
NoPrice == [ priceUsd |-> NULL, source |-> "null" ]

\* getTokenPrice up to its request to the API
GetTokenPrice(r, tokenAddress, timestamp) ==
    /\ resolves[r].pc \in {"idle", "returned", "threw"}
    /\ LET rows == PricerCachedPrice(priceCache, tokenAddress, timestamp)
       IN  IF tokenAddress \in PRICER_STABLECOINS
           THEN Returned(r, tokenAddress, timestamp, PriceResult(100, "stable"))
           ELSE IF rows # {}
           THEN \E i \in rows :
                   Returned(r, tokenAddress, timestamp,
                            PriceResult(priceCache[i].priceUsd, priceCache[i].source))
           ELSE resolves' = [ resolves EXCEPT ![r] =
                                [ pc |-> "pricerFetching", token |-> tokenAddress,
                                  timestamp |-> timestamp ] ]
    /\ UNCHANGED <<costLots, disposedUnits, lastOp, gain, run, jobs, requests,
                   started, classified, conv, totals, reports, priceCache,
                   apiCalls, holdings, holding, pipeline>>

PricerFetched(r, outcome, result) ==
    /\ resolves[r].pc = "pricerFetching"
    /\ Len(apiCalls) < MaxCalls
    /\ apiCalls' = Append(apiCalls, ApiRequest(r, outcome))
    /\ resolves' = [ resolves EXCEPT ![r] =
                       [ pc |-> "pricerCaching", token |-> resolves[r].token,
                         timestamp |-> resolves[r].timestamp,
                         result |-> result ] ]

\* fetchPriceFromAPI got a price from the API
PricerFetchReturns(r, price) ==
    /\ PricerFetched(r, "ok", PriceResult(price, "defillama"))
    /\ UNCHANGED <<costLots, disposedUnits, lastOp, gain, run, jobs, requests,
                   started, classified, conv, totals, reports, priceCache,
                   holdings, holding, pipeline>>

\* the price of ETH by year, in cents, for a timestamp of 2024
EthApproximation == 220000

\* the request failed and the token is the native one: the price of the
\* year is used
PricerFetchApproximates(r) ==
    /\ resolves[r].pc = "pricerFetching"
    /\ resolves[r].token = NativeEth
    /\ PricerFetched(r, "failed", PriceResult(EthApproximation, "approximation"))
    /\ UNCHANGED <<costLots, disposedUnits, lastOp, gain, run, jobs, requests,
                   started, classified, conv, totals, reports, priceCache,
                   holdings, holding, pipeline>>

\* the request failed for another token: getTokenPrice returns null
PricerFetchNull(r) ==
    /\ resolves[r].pc = "pricerFetching"
    /\ resolves[r].token # NativeEth
    /\ Len(apiCalls) < MaxCalls
    /\ apiCalls' = Append(apiCalls, ApiRequest(r, "failed"))
    /\ Returned(r, resolves[r].token, resolves[r].timestamp, NoPrice)
    /\ UNCHANGED <<costLots, disposedUnits, lastOp, gain, run, jobs, requests,
                   started, classified, conv, totals, reports, priceCache,
                   holdings, holding, pipeline>>

\* the row a resolve writes for the price it fetched
CacheRow(r) ==
    [ tokenAddress |-> resolves[r].token,
      timestamp    |-> resolves[r].timestamp,
      priceUsd     |-> resolves[r].result.priceUsd,
      source       |-> resolves[r].result.source ]

\* the pricing stage creates the row and returns the price
PricerCreate(r) ==
    /\ resolves[r].pc = "pricerCaching"
    /\ priceCache' = CreateRow(priceCache, CacheRow(r))
    /\ Returned(r, resolves[r].token, resolves[r].timestamp, resolves[r].result)
    /\ UNCHANGED <<costLots, disposedUnits, lastOp, gain, run, jobs, requests,
                   started, classified, conv, totals, reports, apiCalls,
                   holdings, holding, pipeline>>

\* the create is rejected: getTokenPrice rejects and the event is skipped
PricerCreateRejected(r) ==
    /\ resolves[r].pc = "pricerCaching"
    /\ resolves' = [ resolves EXCEPT ![r] =
                       [ pc |-> "threw", token |-> resolves[r].token,
                         timestamp |-> resolves[r].timestamp ] ]
    /\ UNCHANGED <<costLots, disposedUnits, lastOp, gain, run, jobs, requests,
                   started, classified, conv, totals, reports, priceCache,
                   apiCalls, holdings, holding, pipeline>>

\* the caller of the classifier and the caller of the pricing stage
ClassifierCaller == 1
PricerCaller == 2

CacheTokens == {NativeEth, WETH, USDC, FRAX}
CacheTimes == {0, 5, 65}

NextCache ==
    \/ \E tokenAddress \in CacheTokens, timestamp \in CacheTimes :
          GetPriceAtTime(ClassifierCaller, tokenAddress, timestamp)
    \/ \E price \in ApiPrices : FetchReturns(ClassifierCaller, price)
    \/ FetchThrows(ClassifierCaller)
    \/ CachePrice(ClassifierCaller)
    \/ CachePriceRejected(ClassifierCaller)
    \/ \E tokenAddress \in CacheTokens, timestamp \in CacheTimes :
          GetTokenPrice(PricerCaller, tokenAddress, timestamp)
    \/ \E price \in ApiPrices : PricerFetchReturns(PricerCaller, price)
    \/ PricerFetchApproximates(PricerCaller)
    \/ PricerFetchNull(PricerCaller)
    \/ PricerCreate(PricerCaller)
    \/ PricerCreateRejected(PricerCaller)

SpecCache == Init /\ [][NextCache]_vars

\* the stablecoin set and the tolerance of the resolver the caller uses
StablecoinsOf(r) == IF r = PricerCaller THEN PRICER_STABLECOINS ELSE STABLECOINS
WindowOf(r) == IF r = PricerCaller THEN PricerWindowMinutes ELSE CacheWindowMinutes

\* the rows of the token within the caller's tolerance of the timestamp
RowsNear(r, table, token, timestamp) ==
    { i \in DOMAIN table :
         /\ table[i].tokenAddress = token
         /\ table[i].timestamp - timestamp <= WindowOf(r)
         /\ timestamp - table[i].timestamp <= WindowOf(r) }

\* the caller enters its resolver in this step
ResolveBegins(r) ==
    /\ resolves[r].pc \in {"idle", "returned", "threw"}
    /\ resolves'[r] # resolves[r]

\* the caller's resolver returns a price it fetched in this step
ReturnsFetched(r) ==
    /\ resolves[r].pc \in {"caching", "pricerCaching"}
    /\ resolves'[r].pc = "returned"

\* C24: a resolve of a stablecoin returns 1.0 with source stable and leaves
\* the cache and the API alone; a resolve of another token with a cached
\* row in the window returns a cached price without a request; a request is
\* sent only after a cache miss; and a price fetched from the API is in the
\* cache when it is returned.
C24_Precedence ==
    [][ \A r \in {ClassifierCaller, PricerCaller} :
          /\ ResolveBegins(r) =>
                LET token == resolves'[r].token
                    rows  == RowsNear(r, priceCache, token, resolves'[r].timestamp)
                IN  /\ token \in StablecoinsOf(r) =>
                          /\ resolves'[r].pc = "returned"
                          /\ resolves'[r].result = PriceResult(100, "stable")
                          /\ priceCache' = priceCache
                          /\ apiCalls' = apiCalls
                    /\ (token \notin StablecoinsOf(r) /\ rows # {}) =>
                          /\ resolves'[r].pc = "returned"
                          /\ \E i \in rows :
                                resolves'[r].result.priceUsd = priceCache[i].priceUsd
                          /\ apiCalls' = apiCalls
                    /\ resolves'[r].pc \in {"fetching", "pricerFetching"} =>
                          (token \notin StablecoinsOf(r) /\ rows = {})
          /\ Len(apiCalls') > Len(apiCalls) /\ resolves'[r] # resolves[r] =>
                resolves[r].pc \in {"fetching", "pricerFetching"}
          /\ ReturnsFetched(r) =>
                \E i \in DOMAIN priceCache' :
                   /\ priceCache'[i].tokenAddress = resolves'[r].token
                   /\ priceCache'[i].timestamp = resolves'[r].timestamp
                   /\ priceCache'[i].priceUsd = resolves'[r].result.priceUsd ]_vars

\* C25: every step keeps every row of the cache as it was, at its place; a
\* step only appends rows.
C25_AppendOnly ==
    [][ /\ Len(priceCache') >= Len(priceCache)
        /\ \A i \in DOMAIN priceCache : priceCache'[i] = priceCache[i] ]_vars

\* the classifier's resolver and the pricing stage both wrote a row for
\* WETH at minute 0, with different prices, and both rows are in the cache
C25_Witness ==
    /\ Len(priceCache) = 2
    /\ priceCache[1].tokenAddress = WETH
    /\ priceCache[2].tokenAddress = WETH
    /\ priceCache[1].timestamp = priceCache[2].timestamp
    /\ priceCache[1].priceUsd # priceCache[2].priceUsd
    /\ resolves[ClassifierCaller].pc = "returned"
    /\ resolves[PricerCaller].pc = "returned"

\* ---------------------------------------------------------------------
\* Unrealized gains of the lots still held: calculateUnrealizedGains of the
\* tax engine and getUnrealizedHoldings of the report service
\* ---------------------------------------------------------------------

\* a lot of 3 raw units of the address, whole, partly used or used up on
\* day 90
HeldLot(tokenAddress, acquiredDate, costBasisUsd, remainingAmount) ==
    [ id              |-> 0,
      address         |-> TaxAddress,
      tokenAddress    |-> tokenAddress,
      acquiredDate    |-> acquiredDate,
      acquiredTxHash  |-> 1,
      amount          |-> MaxAmount,
      costBasisUsd    |-> costBasisUsd,
      remainingAmount |-> remainingAmount,
      disposed        |-> (remainingAmount = 0),
      disposedDate    |-> IF remainingAmount = 0 THEN 90 * TicksPerDay ELSE NULL,
      disposedTxHash  |-> IF remainingAmount = 0 THEN 2 ELSE NULL ]

HeldLots ==
    { HeldLot(t, day * TicksPerDay, cost, remaining) :
        t \in Tokens, day \in {0, 60}, cost \in {0, 3000},
        remaining \in {0, 1, MaxAmount} }

\* the tables of one or two lots, numbered in table order
HeldTables ==
    { [ i \in DOMAIN table |-> [ table[i] EXCEPT !.id = i ] ] :
        table \in SeqsUpTo(HeldLots, MaxLots) \ { << >> } }

InitUnrealized ==
    /\ costLots \in HeldTables
    /\ disposedUnits = [ p \in Addresses \X Tokens |-> 0 ]
    /\ lastOp = NoOp
    /\ gain = NoGain
    /\ run = [ j \in JobIds |-> IdleRun ]
    /\ InitReports
    /\ InitLater
    /\ classified = [ tx |-> NoTx, events |-> <<>> ]
    /\ conv = NoConv

\* the tax engine's total for what the price lookups of the tokens did
CalculateUnrealizedGains(quotes) ==
    /\ holdings.pc = "idle"
    /\ holdings' = [ pc     |-> "calculated",
                     quotes |-> quotes,
                     total  |-> calculateUnrealizedGains(costLots, TaxAddress, quotes) ]
    /\ UNCHANGED <<costLots, disposedUnits, lastOp, gain, run, jobs, requests,
                   started, classified, conv, totals, reports, priceCache,
                   apiCalls, resolves, holding, pipeline>>

\* the token symbols stored with the lots
HeldSymbols == {"WETH", "usdc", "XYZ"}

toUpperCase(symbol) == IF symbol = "usdc" THEN "USDC" ELSE symbol

\* the approximate price of a symbol, in USD; NULL for an unknown token
estimateCurrentPrice(tokenSymbol) ==
    IF tokenSymbol \in {"ETH", "WETH"} THEN 3500
    ELSE IF tokenSymbol = "MNT" THEN 1
    ELSE IF toUpperCase(tokenSymbol) \in {"USDT", "USDC", "DAI", "BUSD", "USDE", "USDB"}
    THEN 1
    ELSE NULL

\* the where clause of the findMany in getUnrealizedHoldings
HeldAtEnd(lot, address, endTimestamp) ==
    /\ lot.address = address
    /\ lot.acquiredDate <= endTimestamp
    /\ \/ lot.disposed = FALSE
       \/ (lot.disposedDate # NULL /\ lot.disposedDate > endTimestamp)
    /\ lot.remainingAmount > 0

\* the row pushed for a lot; the USD column is the set of cent amounts
\* toFixed(2) may print
HoldingRow(lot, currentPrice) ==
    [ id             |-> lot.id,
      tokenAddress   |-> lot.tokenAddress,
      unrealizedGain |-> ToFixed2(UnrealizedGainOfLot(lot, currentPrice),
                                  RatioScale \div 100) ]

\* the rows of the lots held at the end of the period whose token has an
\* estimated price; unknown tokens are left out
getUnrealizedHoldings(table, address, endTimestamp, symbols) ==
    { HoldingRow(table[i], estimateCurrentPrice(symbols[table[i].tokenAddress])) :
        i \in { k \in DOMAIN table :
                  /\ HeldAtEnd(table[k], address, endTimestamp)
                  /\ estimateCurrentPrice(symbols[table[k].tokenAddress]) # NULL } }

GetUnrealizedHoldings(endTimestamp, symbols) ==
    /\ holdings.pc = "idle"
    /\ holdings' = [ pc      |-> "listed",
                     endTimestamp |-> endTimestamp,
                     symbols |-> symbols,
                     rows    |-> getUnrealizedHoldings(costLots, TaxAddress,
                                                       endTimestamp, symbols) ]
    /\ UNCHANGED <<costLots, disposedUnits, lastOp, gain, run, jobs, requests,
                   started, classified, conv, totals, reports, priceCache,
                   apiCalls, resolves, holding, pipeline>>

NextUnrealized ==
    \/ \E quotes \in [ Tokens -> Quotes ] : CalculateUnrealizedGains(quotes)
    \/ \E endTimestamp \in {30 * TicksPerDay, 120 * TicksPerDay},
          symbols \in [ Tokens -> HeldSymbols ] :
          GetUnrealizedHoldings(endTimestamp, symbols)

SpecUnrealized == InitUnrealized /\ [][NextUnrealized]_vars

\* the open lots of the address whose token got a price
ResolvedLots(table, address, quotes) ==
    { i \in DOMAIN table :
        /\ LotIsOpen(table[i], address, table[i].tokenAddress)
        /\ quotes[table[i].tokenAddress].kind = "price" }

\* C17: the unrealized total is the sum over the lots of the tokens whose
\* price was resolved; a token whose price was not resolved adds neither a
\* value nor its negative cost basis, and the list of holdings has no row
\* of a token without a price.
C17_UnresolvedExcluded ==
    /\ holdings.pc = "calculated" =>
         holdings.total
           = SumOver([ i \in DOMAIN costLots |->
                         [ gain |-> UnrealizedGainOfLot(costLots[i],
                             holdings.quotes[costLots[i].tokenAddress].priceUsd) ] ],
                     ResolvedLots(costLots, TaxAddress, holdings.quotes), "gain")
    /\ holdings.pc = "listed" =>
         \A row \in holdings.rows :
            estimateCurrentPrice(holdings.symbols[row.tokenAddress]) # NULL

\* the lot was acquired on or before asOf and was not disposed, or disposed
\* after asOf
HeldAsOf(lot, address, asOf) ==
    /\ lot.address = address
    /\ lot.acquiredDate <= asOf
    /\ \/ lot.disposed = FALSE
       \/ (lot.disposedDate # NULL /\ lot.disposedDate > asOf)

\* C21: the holdings listed as of the end of the period are those of exactly
\* the lots acquired on or before it that are not disposed or were disposed
\* after it (among the lots of tokens with an estimated price); a lot held
\* at the end of the period and used up later is listed.
C21_PointInTime ==
    holdings.pc = "listed" =>
      \A i \in DOMAIN costLots :
         estimateCurrentPrice(holdings.symbols[costLots[i].tokenAddress]) # NULL =>
           ( (\E row \in holdings.rows : row.id = costLots[i].id)
               <=> HeldAsOf(costLots[i], TaxAddress, holdings.endTimestamp) )

\* ---------------------------------------------------------------------
\* enrichWithPrices: the USD values of the events of a classified
\* transaction
\* ---------------------------------------------------------------------

\* a transaction of the user with Transfer logs of one unit
EnrichTransactions ==
    { tx \in Transactions :
        /\ tx.from = User
        /\ \A i \in DOMAIN tx.logs : tx.logs[i].amount = 1 }

\* what the three getPriceAtTime calls of one enrichWithPrices call do
EnrichQuotes == [ eth : Quotes, tokenIn : Quotes, tokenOut : Quotes ]

\* the event as classification left it: the USD columns unset
Unpriced(event) ==
    event @@ [ gasFeeUsd |-> NULL, tokenInUsd |-> NULL, tokenOutUsd |-> NULL ]

HasLegIn(event) == IsToken(event.tokenIn) /\ event.tokenInAmount # NULL
HasLegOut(event) == IsToken(event.tokenOut) /\ event.tokenOutAmount # NULL

\* the event after the tokenOut block, which is reached with the gas fee
\* and the tokenIn leg done
EnrichTokenOut(event, quotes) ==
    IF ~HasLegOut(event) \/ quotes.tokenOut.kind = "throws" THEN event
    ELSE [ event EXCEPT !.tokenOutUsd = event.tokenOutAmount * quotes.tokenOut.priceUsd ]

\* the event after the tokenIn block and what follows it; a rejected lookup
\* ends the call in the catch
EnrichTokenIn(event, quotes) ==
    IF ~HasLegIn(event) THEN EnrichTokenOut(event, quotes)
    ELSE IF quotes.tokenIn.kind = "throws" THEN event
    ELSE EnrichTokenOut(
           [ event EXCEPT !.tokenInUsd = event.tokenInAmount * quotes.tokenIn.priceUsd ],
           quotes)

\* the event after enrichWithPrices: the gas fee first, then tokenIn, then
\* tokenOut, all inside one try
enrichWithPrices(event, quotes) ==
    IF quotes.eth.kind = "throws" THEN Unpriced(event)
    ELSE EnrichTokenIn(
           [ Unpriced(event) EXCEPT !.gasFeeUsd = event.gasFeeEth * quotes.eth.priceUsd ],
           quotes)

\* the quotes of the events enriched so far
Quoted(c) == IF "quotes" \in DOMAIN c THEN c.quotes ELSE << >>

\* the loop over the events of the transaction: the next event is enriched
EnrichWithPrices(quotes) ==
    /\ classified.tx # NoTx
    /\ Len(Quoted(classified)) < Len(classified.events)
    /\ LET k == Len(Quoted(classified)) + 1
       IN  classified' =
             [ tx     |-> classified.tx,
               events |-> [ classified.events EXCEPT
                              ![k] = enrichWithPrices(classified.events[k], quotes) ],
               quotes |-> Append(Quoted(classified), quotes) ]
    /\ UNCHANGED <<laterVars, costLots, disposedUnits, lastOp, gain, run, jobs, requests,
                   started, conv>>

InitEnrich ==
    /\ InitLedger
    /\ InitReports
    /\ InitLater
    /\ \E tx \in EnrichTransactions : classified = [ tx |-> tx, events |-> << >> ]
    /\ conv = NoConv

NextEnrich ==
    \/ ClassifyTransaction
    \/ \E quotes \in EnrichQuotes : EnrichWithPrices(quotes)

SpecEnrich == InitEnrich /\ [][NextEnrich]_vars

Resolved(quote) == quote.kind = "price"

\* C22: in an enriched event a leg whose price was not resolved has no USD
\* value (not 0), and a leg whose price was resolved has its USD value, as
\* has the gas fee when the price of the native asset was resolved,
\* whatever happened to the other lookups of the event.
C22_PartialFailure ==
    \A k \in DOMAIN Quoted(classified) :
       LET event  == classified.events[k]
           quotes == classified.quotes[k]
       IN  /\ (HasLegIn(event) /\ ~Resolved(quotes.tokenIn)) => event.tokenInUsd = NULL
           /\ (HasLegOut(event) /\ ~Resolved(quotes.tokenOut)) => event.tokenOutUsd = NULL
           /\ (HasLegIn(event) /\ Resolved(quotes.tokenIn)) => event.tokenInUsd # NULL
           /\ (HasLegOut(event) /\ Resolved(quotes.tokenOut)) => event.tokenOutUsd # NULL
           /\ Resolved(quotes.eth) => event.gasFeeUsd # NULL

\* ---------------------------------------------------------------------
\* Direct transfer matching and the end of the heuristic chain
\* ---------------------------------------------------------------------

\* the Transfer logs of the transaction that name the user, in log order
UserLegs(tx) == SelectSeq(tx.logs, LAMBDA t : t.to = User \/ t.from = User)

\* the transaction is classified by direct transfer matching
IsDirectMatch(tx) ==
    /\ ~IsKnownCall(tx)
    /\ Len(UserLegs(tx)) > 0

\* C26: under direct transfer matching every log that names the user gives
\* one event, in log order; the event of a log to the user is an AIRDROP
\* exactly when no log of the transaction is sent by the user or the log's
\* sender is the zero address, and the event of a log from the user to
\* another party is a TRANSFER exactly when no log of the transaction goes
\* to the user.
C26_DirectMatching ==
    ( classified.tx # NoTx /\ classified.events # << >>
        /\ IsDirectMatch(classified.tx) ) =>
      LET legs == UserLegs(classified.tx)
      IN  /\ Len(classified.events) = Len(legs)
          /\ \A k \in DOMAIN legs :
                IF legs[k].to = User
                THEN /\ classified.events[k].tokenIn = legs[k].address
                     /\ classified.events[k].category \in {"AIRDROP", "TRANSFER"}
                     /\ classified.events[k].category = "AIRDROP"
                          <=> ( (\A i \in DOMAIN classified.tx.logs :
                                    classified.tx.logs[i].from # User)
                                \/ legs[k].from = ZeroAddress )
                ELSE /\ classified.events[k].tokenOut = legs[k].address
                     /\ classified.events[k].category \in {"TRANSFER", "DISPOSAL"}
                     /\ classified.events[k].category = "TRANSFER"
                          <=> (\A i \in DOMAIN classified.tx.logs :
                                  classified.tx.logs[i].to # User)

\* tokens sent by the user and tokens minted to the user in one
\* transaction: the mint is an AIRDROP although the user sent tokens
C26_Witness ==
    /\ classified.tx # NoTx
    /\ Len(classified.tx.logs) = 2
    /\ classified.tx.logs[1].from = User
    /\ classified.tx.logs[1].to = Pool
    /\ classified.tx.logs[2].from = ZeroAddress
    /\ classified.tx.logs[2].to = User
    /\ Len(classified.events) = 2
    /\ classified.events[1].category = "DISPOSAL"
    /\ classified.events[2].category = "AIRDROP"

\* calls of registry contracts and plain transactions, sent by the user or
\* by another party
ChainTransactions == ProtocolTransactions \cup Transactions

InitChain ==
    /\ InitLedger
    /\ InitReports
    /\ InitLater
    /\ \E tx \in ChainTransactions : classified = [ tx |-> tx, events |-> << >> ]
    /\ conv = NoConv

SpecChain == InitChain /\ [][NextClassify]_vars

\* no step before the native-value step gives an event: the transaction is
\* not a known call, and it has no Transfer log, or no log names the user
\* and the user did not send the transaction
NothingMatched(tx) ==
    /\ ~IsKnownCall(tx)
    /\ \/ Len(tx.logs) = 0
       \/ Len(UserLegs(tx)) = 0 /\ tx.from # User

----------------------------------------------------------------------------
(* What one pass of the calculateTaxes loop does to the income total and   *)
(* to the CostLot table                                                    *)

\* the step is one pass of the loop body
PassOfLoop ==
    /\ totals.pc = "loop"
    /\ totals'.pc = "loop"
    /\ Len(totals'.events) = Len(totals.events) + 1

\* the step adds exactly one row to the CostLot table, a whole undisposed
\* lot of amount units of tokenAddress, and leaves the rows it had
AcquiresOneLot(tokenAddress, amount) ==
    /\ Len(costLots') = Len(costLots) + 1
    /\ costLots'[Len(costLots')].tokenAddress = tokenAddress
    /\ costLots'[Len(costLots')].amount = amount
    /\ costLots'[Len(costLots')].remainingAmount = amount
    /\ costLots'[Len(costLots')].disposed = FALSE

\* C28: a pass of the loop over an AIRDROP or STAKING event with a received
\* token adds the USD value of the token to the ordinary income and adds
\* exactly one lot of the token, whole, undisposed, with that USD value as
\* its cost basis, leaving the other lots as they were; a pass over an event
\* of another category leaves the ordinary income as it was.
C28_IncomeLot ==
    [][ PassOfLoop =>
          LET e == totals'.events[Len(totals'.events)].event
          IN  IF e.category \in {"AIRDROP", "STAKING"}
              THEN IsToken(e.tokenIn) =>
                     /\ totals'.ordinaryIncome
                          = totals.ordinaryIncome + NumberOr0(e.tokenInUsd)
                     /\ AcquiresOneLot(e.tokenIn, e.tokenInAmount)
                     /\ costLots'[Len(costLots')].costBasisUsd
                          = NumberOr0(e.tokenInUsd)
                     /\ \A k \in DOMAIN costLots : costLots'[k] = costLots[k]
              ELSE totals'.ordinaryIncome = totals.ordinaryIncome
      ]_vars

\* C29: a pass of the loop over a DISPOSAL event that has a received token
\* and amount adds exactly one lot of that token to the table, whole and
\* undisposed.
C29_DisposalAcquires ==
    [][ PassOfLoop =>
          LET e == totals'.events[Len(totals'.events)].event
          IN  ( e.category = "DISPOSAL" /\ IsToken(e.tokenIn)
                  /\ Truthy(e.tokenInAmount) )
                => AcquiresOneLot(e.tokenIn, e.tokenInAmount)
      ]_vars

----------------------------------------------------------------------------
(* The gas fee of one transaction from classification to the report: the  *)
(* transaction is classified, its events are enriched and saved, the tax  *)
(* engine handles the saved rows in order and the report is written.      *)

\* a transaction of the user with Transfer logs of one unit, its gas used
\* and its gas price
GasTransactions ==
    [ from : {User}, to : {OtherContract}, methodSelector : {NoSelector},
      value : {0, 1}, gasUsed : {1, 2}, gasPrice : {1, 3},
      logs : SeqsUpTo({ t \in TransferLogs : t.amount = 1 }, MaxLogs) ]

\* the price of the native asset is resolved, is the fallback or is not
\* returned; the prices of the tokens are resolved
GasQuotes ==
    { q \in EnrichQuotes : q.tokenIn.kind = "price" /\ q.tokenOut.kind = "price" }

InitGas ==
    /\ InitLedger
    /\ InitReports
    /\ InitLater
    /\ \E tx \in GasTransactions : classified = [ tx |-> tx, events |-> << >> ]
    /\ conv = NoConv

\* every event of the transaction has been enriched and saved
AllSaved ==
    /\ classified.tx # NoTx
    /\ Len(classified.events) > 0
    /\ Len(Quoted(classified)) = Len(classified.events)

\* the taxEvent row of a classified event
TaxEventRow(event) ==
    [ timestamp      |-> 0,
      category       |-> event.category,
      tokenIn        |-> event.tokenIn,
      tokenInAmount  |-> event.tokenInAmount,
      tokenInUsd     |-> event.tokenInUsd,
      tokenOut       |-> event.tokenOut,
      tokenOutAmount |-> event.tokenOutAmount,
      tokenOutUsd    |-> event.tokenOutUsd,
      gasFeeEth      |-> event.gasFeeEth,
      gasFeeUsd      |-> event.gasFeeUsd ]

\* calculateTaxes begins once the rows of the job are saved
CalculateTaxes ==
    /\ AllSaved
    /\ StartTaxes

\* one pass of the loop over job.taxEvents: the next row of the job
TaxEventPass ==
    /\ AllSaved
    /\ totals.pc = "loop"
    /\ Len(totals.events) < Len(classified.events)
    /\ LET event == TaxEventRow(classified.events[Len(totals.events) + 1])
       IN  \/ TaxIncome(event)
           \/ TaxDisposal(event)
           \/ TaxNonTaxable(event)

\* the report is written after the last row
TaxReport(quotes) ==
    /\ AllSaved
    /\ totals.pc = "loop"
    /\ Len(totals.events) = Len(classified.events)
    /\ SaveReport(quotes)

NextGas ==
    \/ ClassifyTransaction
    \/ \E quotes \in GasQuotes : EnrichWithPrices(quotes)
    \/ CalculateTaxes
    \/ TaxEventPass
    \/ \E quotes \in [ Tokens -> Quotes ] : TaxReport(quotes)

SpecGas == InitGas /\ [][NextGas]_vars

\* the gasFeeUsd of the events from k on, added up; an event without one
\* adds nothing
RECURSIVE GasFeeUsdFrom(_, _)
GasFeeUsdFrom(events, k) ==
    IF k > Len(events) THEN 0
    ELSE NumberOr0(events[k].gasFeeUsd) + GasFeeUsdFrom(events, k + 1)

\* C31: every event of a classified transaction carries the gas fee
\* gasUsed * gasPrice of the transaction, whatever its category, and the
\* totalGasFeeUsd of the report is the sum of the gasFeeUsd of all the
\* events of the job, whatever their categories.
C31_GasEverywhere ==
    /\ classified.tx # NoTx =>
         \A k \in DOMAIN classified.events :
            classified.events[k].gasFeeEth
              = classified.tx.gasUsed * classified.tx.gasPrice
    /\ reports # << >> =>
         reports[1].totalGasFeeUsd
           = 100 * GasFeeUsdFrom(classified.events, 1)

\* a transaction with gas 2 at price 3 that became a DISPOSAL and an
\* AIRDROP, both with the gas fee 6 worth 9000 USD, and a report whose gas
\* total is 18000 USD
C31_Witness ==
    /\ reports # << >>
    /\ classified.tx.gasUsed = 2
    /\ classified.tx.gasPrice = 3
    /\ Len(classified.events) = 2
    /\ classified.events[1].category = "DISPOSAL"
    /\ classified.events[2].category = "AIRDROP"
    /\ classified.events[1].gasFeeEth = 6
    /\ classified.events[2].gasFeeEth = 6
    /\ classified.events[1].gasFeeUsd = 6 * CurrentPrice
    /\ classified.events[2].gasFeeUsd = 6 * CurrentPrice
    /\ reports[1].totalGasFeeUsd = 100 * 12 * CurrentPrice

\* C36: the totalGasFeeUsd of the report of a job with one transaction is
\* at most the gas fee of that transaction in USD, however many events the
\* transaction was classified into.
C36_GasOnce ==
    ( reports # << >> /\ classified.tx # NoTx ) =>
      \A k \in DOMAIN classified.events :
         classified.events[k].gasFeeUsd # NULL =>
           reports[1].totalGasFeeUsd <= 100 * classified.events[k].gasFeeUsd

----------------------------------------------------------------------------
(* The fields of a lot over time *)

\* C32: in every step every lot of the table stays in the table with its
\* address, token, acquired date, acquiring transaction, amount and cost
\* basis; its remainingAmount does not grow; its disposedDate and
\* disposedTxHash change only in the step that brings remainingAmount from
\* above 0 to 0, which sets them, and once set they stay as they are.
C32_LotStable ==
    [][ \A i \in DOMAIN costLots :
          /\ i \in DOMAIN costLots'
          /\ costLots'[i].id = costLots[i].id
          /\ costLots'[i].address = costLots[i].address
          /\ costLots'[i].tokenAddress = costLots[i].tokenAddress
          /\ costLots'[i].acquiredDate = costLots[i].acquiredDate
          /\ costLots'[i].acquiredTxHash = costLots[i].acquiredTxHash
          /\ costLots'[i].amount = costLots[i].amount
          /\ costLots'[i].costBasisUsd = costLots[i].costBasisUsd
          /\ costLots'[i].remainingAmount <= costLots[i].remainingAmount
          /\ ( costLots[i].remainingAmount > 0 /\ costLots'[i].remainingAmount = 0 )
                => ( costLots'[i].disposedDate # NULL
                       /\ costLots'[i].disposedTxHash # NULL )
          /\ ~( costLots[i].remainingAmount > 0 /\ costLots'[i].remainingAmount = 0 )
                => ( costLots'[i].disposedDate = costLots[i].disposedDate
                       /\ costLots'[i].disposedTxHash = costLots[i].disposedTxHash )
      ]_vars

----------------------------------------------------------------------------
(* Lots and the disposals that took from them *)

\* C34: a disposal that returned a result took units only from lots
\* acquired at or before its own timestamp, and the holding period it
\* returned is not negative, in whatever order the events of the jobs of an
\* address are handled.
C34_NoFutureLot ==
    ( lastOp # NoOp /\ ~gain.isNull ) =>
      /\ \A p \in DOMAIN gain.parts :
            gain.parts[p].units > 0 =>
              costLots[gain.parts[p].lot].acquiredDate <= lastOp.event.timestamp
      /\ gain.holdingPeriod >= 0

\* the cost the parts from k on charged to the lot, in 1/10000 USD
RECURSIVE ChargedByParts(_, _, _)
ChargedByParts(parts, k, lot) ==
    IF k > Len(parts) THEN 0
    ELSE (IF parts[k].lot = lot THEN parts[k].cost ELSE 0)
         + ChargedByParts(parts, k + 1, lot)

\* the cost the disposals of the log from k on charged to the lot
RECURSIVE ChargedTo(_, _, _)
ChargedTo(log, k, lot) ==
    IF k > Len(log) THEN 0
    ELSE (IF log[k].gain.isNull THEN 0
          ELSE ChargedByParts(log[k].gain.parts, 1, lot))
         + ChargedTo(log, k + 1, lot)

\* C35: the contributions the disposals of a calculateTaxes call charged to
\* a lot never add up to more than the lot's costBasisUsd, and add up to
\* exactly the costBasisUsd once the lot is fully disposed.
C35_CostConserved ==
    totals.pc # "idle" =>
      \A i \in DOMAIN costLots :
         LET charged == ChargedTo(totals.events, 1, costLots[i].id)
         IN  /\ charged <= costLots[i].costBasisUsd * RatioScale
             /\ ( costLots[i].disposed /\ costLots[i].remainingAmount = 0 )
                   => charged = costLots[i].costBasisUsd * RatioScale

----------------------------------------------------------------------------
(* A second run over the events of a finished job of the address: the job  *)
(* is deleted and created again, or the job of the full year follows the   *)
(* job of a month.  The rows of the second job are the rows of the first.  *)

\* the rows the first job handled, kept for the second
HasPrevious == "previous" \in DOMAIN totals

\* the locals of calculateTaxes at the start of the second job
SecondRun(previous) ==
    [ pc |-> "loop", ordinaryIncome |-> 0, shortTermGain |-> 0,
      longTermGain |-> 0, totalGasFee |-> 0, events |-> << >>,
      previous |-> previous ]

\* one pass of the loop of the first job
FirstPass(event) ==
    /\ ~HasPrevious
    /\ \/ TaxIncome(event)
       \/ TaxDisposal(event)
       \/ TaxNonTaxable(event)

\* the report of a job is written after its last row
RerunSave(quotes) ==
    /\ totals.pc = "loop"
    /\ HasPrevious => Len(totals.events) = Len(totals.previous)
    /\ SaveReport(quotes)

\* deleteReport: the job row is deleted, and with it its Transaction,
\* TaxEvent and Report rows; the CostLot rows stay
DeleteReport ==
    /\ totals.pc = "done"
    /\ ~HasPrevious
    /\ totals' = [ pc |-> "deleted", previous |-> totals.events ]
    /\ reports' = << >>
    /\ UNCHANGED <<costLots, disposedUnits, lastOp, gain, run, jobs, requests,
                   started, classified, conv, priceCache, apiCalls, resolves,
                   holdings, holding, pipeline>>

\* createReport for the deleted key: a new job, whose calculateTaxes begins
RecreateReport ==
    /\ totals.pc = "deleted"
    /\ totals' = SecondRun(totals.previous)
    /\ UNCHANGED <<costLots, disposedUnits, lastOp, gain, run, jobs, requests,
                   started, classified, conv, reports, priceCache, apiCalls,
                   resolves, holdings, holding, pipeline>>

\* createReport for the full year after the job of a month is done
CreateYearReport ==
    /\ totals.pc = "done"
    /\ ~HasPrevious
    /\ totals' = SecondRun(totals.events)
    /\ UNCHANGED <<costLots, disposedUnits, lastOp, gain, run, jobs, requests,
                   started, classified, conv, reports, priceCache, apiCalls,
                   resolves, holdings, holding, pipeline>>

\* one pass of the loop of the second job: the row the first job handled
\* at this position
SecondPass ==
    /\ HasPrevious
    /\ totals.pc = "loop"
    /\ Len(totals.events) < Len(totals.previous)
    /\ LET event == totals.previous[Len(totals.events) + 1].event
       IN  \/ TaxIncome(event)
           \/ TaxDisposal(event)
           \/ TaxNonTaxable(event)

\* the rows of the first job: its disposals are dated after every
\* acquisition, so that the second job finds no lot dated after a disposal
RerunEvents ==
    { e \in TaxIncomeEvents \cup TaxDisposalEvents \cup TaxNonTaxableEvents :
        e.category = "DISPOSAL" => e.timestamp >= 60 * TicksPerDay }

NextRerun ==
    \/ StartTaxes
    \/ \E e \in RerunEvents : FirstPass(e)
    \/ \E quotes \in [ Tokens -> { q \in Quotes : q.kind = "price" } ] :
          RerunSave(quotes)
    \/ DeleteReport
    \/ RecreateReport
    \/ CreateYearReport
    \/ SecondPass

SpecRerun == Init /\ [][NextRerun]_vars

\* C37: no two lots of the CostLot table were acquired by the same event
\* (the same address, acquiring transaction and token), also after a second
\* job has handled the events of a first.
C37_NoDuplicateLots ==
    \A i, k \in DOMAIN costLots :
       ( /\ costLots[i].address = costLots[k].address
         /\ costLots[i].acquiredTxHash = costLots[k].acquiredTxHash
         /\ costLots[i].tokenAddress = costLots[k].tokenAddress )
       => i = k

----------------------------------------------------------------------------
(* Failures of single items and later requests for a key under SpecPipeline *)

\* the step ends an item of job j without its progress update: the item
\* failed
ItemFails(j) ==
    /\ j \in DOMAIN jobs
    /\ pipeline[j].pc \in {"CLASSIFYING", "PRICING", "CALCULATING"}
    /\ pipeline'[j].left = pipeline[j].left - 1
    /\ pipeline'[j].handled = pipeline[j].handled

JobsOfKey(dto) == { i \in DOMAIN jobs : jobs[i].dto = dto }

\* C38: a createReport whose lookup is made when a job of its key exists
\* returns the id of a job of the key, whatever the stage of that job, and
\* the step creates no job and starts no processReport; and a job in stage
\* ERROR stays in stage ERROR.
C38_ExistingJobReturned ==
    [][ /\ \A r \in RequestIds :
              ( /\ requests[r].pc = "idle"
                /\ requests'[r].pc # "idle"
                /\ JobsOfKey(requests'[r].dto) # {} )
              => /\ requests'[r].pc = "done"
                 /\ \E i \in JobsOfKey(requests'[r].dto) :
                       requests'[r].jobId = jobs[i].id
                 /\ jobs' = jobs
                 /\ started' = started
        /\ \A j \in DOMAIN jobs :
              jobs[j].stage = "ERROR" =>
                ( j \in DOMAIN jobs' /\ jobs'[j].stage = "ERROR" )
      ]_vars

\* a second request for the key of a job that ended in ERROR has returned
\* the id of that job; it is the only job and processReport ran once
C38_Witness ==
    /\ Len(jobs) = 1
    /\ jobs[1].stage = "ERROR"
    /\ pipeline[1].pc = "ERROR"
    /\ started = << 1 >>
    /\ requests[1].pc = "done"
    /\ requests[2].pc = "done"
    /\ requests[1].dto = requests[2].dto
    /\ requests[1].jobId = jobs[1].id
    /\ requests[2].jobId = jobs[1].id

----------------------------------------------------------------------------
(* One job from createReport to its end, every awaited call returning or   *)
(* rejecting in the end.                                                   *)

\* the update of the catch in createReport is not awaited: it may reach the
\* table or not.  The run is over either way.
RunRejected(j, written) ==
    /\ jobs' = IF written THEN [ jobs EXCEPT ![j].stage = "ERROR" ] ELSE jobs
    /\ pipeline' = [ pipeline EXCEPT ![j].pc = "REJECTED" ]
    /\ UNCHANGED <<costLots, disposedUnits, lastOp, gain, run, requests, started,
                   classified, conv, totals, reports, priceCache, apiCalls, resolves,
                   holdings, holding>>

\* the findUnique at the top of processReport rejects, before the try
FindJobRejects(j, written) ==
    /\ j \in DOMAIN jobs
    /\ pipeline[j].pc = "none"
    /\ RunRejected(j, written)

\* an awaited call inside the try rejects and the update of the catch of
\* processReport rejects too
ErrorUpdateRejects(j, written) ==
    /\ j \in DOMAIN jobs
    /\ pipeline[j].pc \in ItemStages \cup {"ADVISING"}
    /\ RunRejected(j, written)

\* the Report rows of a job
ReportsOf(j) == { k \in DOMAIN reports : reports[k].jobId = j }

\* the report.create at the end of calculateTaxes
CreateReportRow(j) ==
    /\ StageReturned(j, "CALCULATING")
    /\ ReportsOf(j) = {}
    /\ reports' = Append(reports, [ jobId |-> j ])
    /\ UNCHANGED <<costLots, disposedUnits, lastOp, gain, run, jobs, requests,
                   started, classified, conv, totals, priceCache, apiCalls,
                   resolves, holdings, holding, pipeline>>

\* calculateTaxes has returned: Stage 5
CalculateTaxesReturned(j) ==
    /\ ReportsOf(j) # {}
    /\ GenerateStrategies(j)

\* the one request of this specification
LiveRequests == {1}

NextLive ==
    \/ \E r \in LiveRequests : \E dto \in ReportDtos : FindExisting(r, dto)
    \/ \E r \in LiveRequests : CreateJob(r)
    \/ \E j \in LiveRequests, n \in 0..MaxItems : BeginFetching(j, n)
    \/ \E j \in LiveRequests, n \in 0..MaxItems : BeginClassifying(j, n)
    \/ \E j \in LiveRequests, n \in 0..MaxItems : BeginPricing(j, n)
    \/ \E j \in LiveRequests, n \in 0..MaxItems : BeginCalculating(j, n)
    \/ \E j \in LiveRequests : ItemHandled(j)
    \/ \E j \in LiveRequests : ItemFailed(j)
    \/ \E j \in LiveRequests : CreateReportRow(j)
    \/ \E j \in LiveRequests : CalculateTaxesReturned(j)
    \/ \E j \in LiveRequests : FinishReport(j)
    \/ \E j \in LiveRequests : StageThrows(j)
    \/ \E j \in LiveRequests, written \in BOOLEAN : FindJobRejects(j, written)
    \/ \E j \in LiveRequests, written \in BOOLEAN : ErrorUpdateRejects(j, written)

\* every pending call returns or rejects in the end
SpecLive == Init /\ [][NextLive]_vars /\ WF_vars(NextLive)

\* C39: every job that was created reaches stage DONE or stage ERROR in the
\* end; a job in stage DONE has a Report row; and no job has more than one
\* Report row.
C39_JobEnds ==
    /\ \A j \in LiveRequests :
          (j \in DOMAIN jobs)
            ~> (j \in DOMAIN jobs /\ jobs[j].stage \in {"DONE", "ERROR"})
    /\ [](\A j \in DOMAIN jobs :
            /\ jobs[j].stage = "DONE" => ReportsOf(j) # {}
            /\ Cardinality(ReportsOf(j)) <= 1)

====
